---- MODULE Spec2Model ----
(***************************************************************************)
(* AgentOS goal/task execution pipeline.                                   *)
(*                                                                         *)
(*   - StateMachine            (core/state-machine.ts)                     *)
(*   - MultiProviderLLMClient  (llm/client.ts, generate)                   *)
(*   - LLMDecomposeStage       (stages/decompose.ts, id rewriting)         *)
(*   - Pipeline                (core/pipeline.ts, dependency scheduler)    *)
(*                                                                         *)
(* Each component has its own specification (SpecSM, SpecGen, SpecSched);  *)
(* the variables of the other components stay at their idle values.        *)
(***************************************************************************)
EXTENDS Integers, Sequences, FiniteSets, TLC

VARIABLES
    \* ---- StateMachine driver: one task, transition() called on it
    smTask,      \* the task object handed to transition()
    smPrev,      \* the same object as it was before the last call
    smArg,       \* newStatus of the last call
    smResult,    \* Result returned by the last call
    smQuery,     \* last canTransition / getAllowedTransitions query and its answers
    clock,       \* wall clock read by new Date()
    \* ---- MultiProviderLLMClient.generate: one call
    genStage,        \* stage argument
    genConfig,       \* the stage's configuration (#getStageConfig(stage))
    genOptions,      \* options argument (modelAlias override)
    genPc,           \* position in generate
    modelAliases,    \* local: candidate list
    maxRetries,      \* local: effective retry count
    lastError,       \* local: last caught error
    genModelIdx,     \* outer loop: position in modelAliases (1-based)
    attempt,         \* inner loop counter
    genLog,          \* the #generateOnce calls made so far, with their outcomes
    genOutcome,      \* what the call returned or threw
    genRace,         \* the promise #generateOnce awaits at line 220, once settled
    \* ---- Pipeline.#executeTasksWithDependencies: one call
    config,          \* this.#config (teams and agents)
    goal,            \* the goal argument
    tasks,           \* the tasks argument: Task objects, mutated in place
    remaining,       \* local Map, as its keys in insertion order
    completed,       \* local Set
    failed,          \* local Set
    blocked,         \* local Set
    progressed,      \* local flag of the current pass
    entries,         \* Array.from(remaining.entries()) still to be visited
    schedPc,         \* position in the scheduler / in the dispatch of a task
    agent,           \* local of #executeTaskWithAgentMatching
    passes,          \* number of passes of the while loop begun so far
    schedLog,        \* collaborator calls made so far, in order
    \* ---- Pipeline.runCycle: one cycle
    cycleGoals,      \* the goals pollGoals returned
    cycleIdx,        \* position of the for loop in cycleGoals (1-based)
    cyclePc,         \* position in runCycle / #processGoal
    goalLog,         \* goal-level stage and collaborator calls made so far
    \* ---- GoalSource.claim: concurrent calls on one adapter
    claimAdapter,    \* which adapter the calls are made on
    claimTeams,      \* Object.keys(config.teams), in order
    lockFiles,       \* the .lock files that exist, as <<team, inputId>> pairs
    claimCalls,      \* per call: its arguments, position and result
    \* ---- pure functions applied to drawn inputs
    routeQuery,      \* #findBestAgent: arguments and result
    clarifyQuery,    \* shouldAsk / shouldAskForTask: model output and result
    decomposeQuery,  \* LLMDecomposeStage.run: model output and result
    configQuery,     \* ConfigLoader.load: file content and result
    onceQuery,       \* #generateOnce with a schema: provider reply and result
    \* ---- DiscordAdapter: one adapter object
    isReady,         \* #isReady
    discordPc,       \* what initialize() / destroy() are waiting for
    discordLog,      \* lifecycle events and calls made so far, with results
    \* ---- FileSystemAdapter: goal files over several cycles
    fsFiles,         \* the *.goal.md files of the team directories
    fsQueue,         \* runCycle: goals polled and not yet processed
    fsPolls,         \* number of runCycle calls so far
    fsLog            \* pollGoals results and goal-level reports so far

smVars == <<smTask, smPrev, smArg, smResult, smQuery>>

schedVars == <<config, goal, tasks, remaining, completed, failed, blocked,
               progressed, entries, schedPc, agent, passes, schedLog>>

genVars == <<genStage, genConfig, genOptions, genPc, modelAliases, maxRetries,
             lastError, genModelIdx, attempt, genLog, genOutcome, genRace>>

cycleVars == <<cycleGoals, cycleIdx, cyclePc, goalLog>>

claimVars == <<claimAdapter, claimTeams, lockFiles, claimCalls>>

queryVars == <<routeQuery, clarifyQuery, decomposeQuery, configQuery, onceQuery>>

discordVars == <<isReady, discordPc, discordLog>>

fsVars == <<fsFiles, fsQueue, fsPolls, fsLog>>

vars == <<smVars, clock, genVars, schedVars, cycleVars, claimVars, queryVars,
          discordVars, fsVars>>

\* ---------------------------------------------------------------- bounds
MaxClock == 3
\* largest configured maxRetries that is explored
MaxRetries == 2
\* largest batch Decompose returns, and the most dependency ordinals it names
MaxTasks == 3
MaxEdges == 4
\* goals polled in one cycle, and the batch each may decompose into
MaxGoals == 2
MaxCycleTasks == 2
MaxCycleEdges == 1
\* configured teams, and claim calls made on one adapter
MaxTeams == 2
\* longest team roster #findBestAgent is asked about
MaxRoster == 2
\* most questions in a Clarify output that is explored
MaxQuestions == 2
\* most dependency ordinals in a Decompose output given to run directly
MaxQueryEdges == 1
MaxClaimCalls == 3

\* ------------------------------------------------------------- utilities
None == "none"

\* An optional value (undefined | v) is the sequence <<>> or <<v>>.
Undefined == <<>>
Some(v) == <<v>>

Range(s) == {s[i] : i \in DOMAIN s}

\* ------------------------------------------------------------ task status
TaskStatus ==
    {"pending", "claimed", "in_progress", "blocked", "review", "completed", "failed"}

\* A Task object as Decompose builds it: pending, no timestamps, no result.
NewTask(id, deps) ==
    [id |-> id, dependencies |-> deps, status |-> "pending",
     requiredCapabilities |-> <<"research">>,
     claimedAt |-> Undefined, completedAt |-> Undefined, result |-> Undefined]

\* ----------------------------------------------------------- StateMachine
\* Variant: a claimed task cannot be started.
transitionsNoStart ==
    [pending     |-> <<"claimed">>,
     claimed     |-> <<"failed">>,
     in_progress |-> <<"blocked", "completed", "failed">>,
     blocked     |-> <<"in_progress", "failed">>,
     completed   |-> <<>>,
     failed      |-> <<"pending">>]

\* Variant: a completed task may be retried like a failed one.
transitionsCompletedRetry ==
    [pending     |-> <<"claimed">>,
     claimed     |-> <<"in_progress", "failed">>,
     in_progress |-> <<"blocked", "completed", "failed">>,
     blocked     |-> <<"in_progress", "failed">>,
     completed   |-> <<"pending">>,
     failed      |-> <<"pending">>]

transitions ==
    [pending     |-> <<"claimed">>,
     claimed     |-> <<"in_progress", "failed">>,
     in_progress |-> <<"blocked", "completed", "failed">>,
     blocked     |-> <<"in_progress", "failed">>,
     completed   |-> <<>>,
     failed      |-> <<"pending">>]

canTransition(from, to) ==
    IF from \in DOMAIN transitions
    THEN to \in Range(transitions[from])
    ELSE FALSE

getAllowedTransitions(status) ==
    IF status \in DOMAIN transitions THEN transitions[status] ELSE <<>>

\* Variant: the status is written before the guard is consulted.
transitionUnguarded(task, newStatus, now) ==
    [task   |-> [task EXCEPT !.status = newStatus],
     result |-> IF canTransition(task.status, newStatus)
                THEN [success |-> TRUE, error |-> Undefined]
                ELSE [success |-> FALSE,
                      error   |-> <<"Cannot transition", task.status, newStatus>>]]

\* Variant: completedAt is stamped for completed only, not for failed.
transitionNoFailedStamp(task, newStatus, now) ==
    IF ~canTransition(task.status, newStatus)
    THEN [task   |-> task,
          result |-> [success |-> FALSE,
                      error   |-> <<"Cannot transition", task.status, newStatus>>]]
    ELSE LET t1 == [task EXCEPT !.status = newStatus]
             t2 == IF newStatus = "claimed"
                   THEN [t1 EXCEPT !.claimedAt = Some(now)] ELSE t1
             t3 == IF newStatus = "completed"
                   THEN [t2 EXCEPT !.completedAt = Some(now)] ELSE t2
         IN  [task |-> t3, result |-> [success |-> TRUE, error |-> Undefined]]

\* transition(task, newStatus) with the clock reading `now`; yields the task
\* object after the call and the Result returned.
transition(task, newStatus, now) ==
    IF ~canTransition(task.status, newStatus)
    THEN [task   |-> task,
          result |-> [success |-> FALSE,
                      error   |-> <<"Cannot transition", task.status, newStatus>>]]
    ELSE LET t1 == [task EXCEPT !.status = newStatus]
             t2 == IF newStatus = "claimed"
                   THEN [t1 EXCEPT !.claimedAt = Some(now)] ELSE t1
             t3 == IF newStatus = "completed" \/ newStatus = "failed"
                   THEN [t2 EXCEPT !.completedAt = Some(now)] ELSE t2
         IN  [task |-> t3, result |-> [success |-> TRUE, error |-> Undefined]]

\* ------------------------------------------------- MultiProviderLLMClient
\* Object.keys(this.#models): the configured model aliases, in config order.
\* The last one is what a key "${VAR}" of the file has become for a VAR that
\* is not set (config.ts lines 135-138).
ModelKeys == <<"m1", "m2", "">>

\* the aliases that are not empty
NamedModels == Range(ModelKeys) \ {""}

\* An alias nobody configured (a caller may still pass it as an override).
UnknownAlias == "m9"

PlaceholderError == <<"Error", "Unknown LLM execution error">>

\* a || b on optional strings: the empty string is falsy like undefined.
Truthy(opt) == opt # Undefined /\ opt[1] # ""
OrElse(a, b) == IF Truthy(a) THEN a ELSE b

getModelForStage(stage, stageConfig) ==
    LET fallback == IF Len(ModelKeys) > 0 THEN Some(ModelKeys[1]) ELSE Undefined
    IN  IF stage = "execute"
        THEN OrElse(stageConfig.default, fallback)
        ELSE OrElse(stageConfig.primary, fallback)

\* Variant: the fallback is appended without comparing it to the primary.
resolveModelAliasesNoDistinct(stage, stageConfig, options) ==
    LET primaryModel == OrElse(options.modelAlias, getModelForStage(stage, stageConfig))
    IN  IF Truthy(stageConfig.fallback)
        THEN <<primaryModel[1], stageConfig.fallback[1]>>
        ELSE <<primaryModel[1]>>

\* generate, lines 112-116: the candidate list.
resolveModelAliases(stage, stageConfig, options) ==
    LET primaryModel == OrElse(options.modelAlias, getModelForStage(stage, stageConfig))
    IN  IF Truthy(stageConfig.fallback) /\ stageConfig.fallback # primaryModel
        THEN <<primaryModel[1], stageConfig.fallback[1]>>
        ELSE <<primaryModel[1]>>

\* Math.max(0, stageConfig.maxRetries ?? 0)
resolveMaxRetries(stageConfig) ==
    LET configured == IF stageConfig.maxRetries = Undefined THEN 0 ELSE stageConfig.maxRetries[1]
    IN  IF configured > 0 THEN configured ELSE 0

\* Variant: the retry loop runs while attempt < maxRetries.
attemptAllowedStrict(a, m) == a < m

\* the inner loop condition: attempt <= maxRetries
attemptAllowed(a, m) == a <= m

\* Variant: only the first caught error is kept.
catchErrorKeepFirst(previous, error) ==
    IF previous = PlaceholderError THEN error ELSE previous

\* catch (error) { lastError = error; ... }
catchError(previous, error) == error

\* What attempt number a on candidate alias yields when the provider answers,
\* and what it throws when it does not: each attempt has its own value.
ResponseOf(alias, a) == [text |-> <<"text", alias, a>>]
ErrorOf(alias, a, kind) == <<"Error", kind, alias, a>>

\* Variant: a timeout of 0 arms the timer too.
timerArmedNonNegative(timeoutMs) == timeoutMs # Undefined /\ timeoutMs[1] >= 0

\* #withTimeout, line 251: the timer is set unless !timeoutMs || timeoutMs <= 0
timerArmed(timeoutMs) == timeoutMs # Undefined /\ timeoutMs[1] > 0

\* #withTimeout, lines 246-265.  call is what the underlying promise does
\* ("resolves", "rejects", or "never" settles); timerFirst says whether the
\* timer fires before it.  Without a timer the promise itself is returned.
withTimeout(call, timeoutMs, timerFirst) ==
    IF ~timerArmed(timeoutMs) THEN call
    ELSE IF timerFirst THEN "timeout"
    ELSE call

\* How one attempt can go.  Without a timer there is nothing to fire, and a
\* promise that never settles is awaited for ever.  With a timer, the call the
\* timer beats is left running (nothing cancels it): it is recorded as a call
\* that would resolve, whose late settlement may or may not come.
Races(timeoutMs) ==
    {r \in [call : {"resolves", "rejects", "never"}, timerFirst : BOOLEAN] :
        /\ r.timerFirst => timerArmed(timeoutMs) /\ r.call = "resolves"
        /\ r.call = "never" => ~timerArmed(timeoutMs)}

\* the error an attempt that does not resolve rejects with
KindOf(settled) == IF settled = "timeout" THEN "timeout" ELSE "provider"

\* timeoutMs values a stage may carry: absent, zero, negative, positive
TimeoutValues == {Undefined, Some(0), Some(-1), Some(30)}

\* The aliases whose model config carries a pricing object; ConfigLoader.validate
\* asks for baseUrl and an API key of a model, not for pricing.
PricedModels == {Range(ModelKeys), {"m2"}}

\* Variant: a model without pricing costs nothing.
costOfLenient(alias, priced) == "ok"

\* #generateOnce, lines 226-235: the cost of the answer is computed from
\* modelConfig.pricing and logged, outside any try; reading inputPer1k of a
\* missing pricing object throws a TypeError
costOf(alias, priced) == IF alias \in priced THEN "ok" ELSE "TypeError"

\* Variant: a later settlement replaces the one a promise already has.
settleOverwrites(state, outcome) == outcome

\* #withTimeout, lines 255-264: the promise Promise.race returns is settled by
\* the first of its two inputs to settle; a promise that is settled stays as
\* it is when resolve or reject is called on it again
settle(state, outcome) == IF state = "pending" THEN outcome ELSE state

GenStages == {"clarify", "execute"}

\* Stage configurations that ConfigLoader.validate accepts: the stage's
\* primary (execute: default) and a configured fallback are model aliases,
\* here aliases that are not empty.
GenConfigs(stage) ==
    {[primary    |-> IF stage = "execute" THEN Undefined ELSE Some(p),
      default    |-> IF stage = "execute" THEN Some(p) ELSE Undefined,
      fallback   |-> f,
      maxRetries |-> r,
      timeoutMs  |-> t,
      priced     |-> c] :
        p \in NamedModels,
        c \in PricedModels,
        t \in TimeoutValues,
        f \in {Undefined} \cup {Some(m) : m \in NamedModels},
        r \in {Undefined} \cup {Some(k) : k \in -1..MaxRetries}}

GenOptions ==
    {[modelAlias |-> o] :
        o \in {Undefined} \cup {Some(m) : m \in {"m2", UnknownAlias}}}

GenIdle ==
    /\ genStage = None
    /\ genConfig = None
    /\ genOptions = None
    /\ genPc = "idle"
    /\ modelAliases = <<>>
    /\ maxRetries = 0
    /\ lastError = <<>>
    /\ genModelIdx = 0
    /\ attempt = 0
    /\ genLog = <<>>
    /\ genOutcome = <<>>
    /\ genRace = <<>>

InitGen ==
    /\ genStage \in GenStages
    /\ genConfig \in GenConfigs(genStage)
    /\ genOptions \in GenOptions
    /\ genPc = "called"
    /\ modelAliases = <<>>
    /\ maxRetries = 0
    /\ lastError = <<>>
    /\ genModelIdx = 0
    /\ attempt = 0
    /\ genLog = <<>>
    /\ genOutcome = <<>>
    /\ genRace = <<>>

\* lines 111-121: resolve the candidates and the retry count, enter the loops
GenEnter ==
    /\ genPc = "called"
    /\ modelAliases' = resolveModelAliases(genStage, genConfig, genOptions)
    /\ maxRetries' = resolveMaxRetries(genConfig)
    /\ lastError' = PlaceholderError
    /\ genModelIdx' = 1
    /\ attempt' = 0
    /\ genPc' = "loop"
    /\ UNCHANGED <<genStage, genConfig, genOptions, genLog, genOutcome, genRace>>

GenInLoop ==
    /\ genPc = "loop"
    /\ genModelIdx <= Len(modelAliases)
    /\ attemptAllowed(attempt, maxRetries)

\* lines 220-224, 246-265: the attempt calls the provider and awaits the
\* promise #withTimeout returns; that promise settles with whichever comes
\* first, the provider call or the timer.  A call the timer beats is left
\* running
GenRaceSettles ==
    /\ GenInLoop
    /\ \E race \in Races(genConfig.timeoutMs) :
        LET alias == modelAliases[genModelIdx]
            first == withTimeout(race.call, genConfig.timeoutMs, race.timerFirst)
        IN  /\ alias \in Range(ModelKeys)   \* else "No model config for alias"
            /\ first # "never"
            /\ genRace' = Some([race  |-> race,
                                state |-> settle("pending", first),
                                late  |-> IF race.timerFirst /\ race.call = "resolves"
                                          THEN "inflight" ELSE "none"])
    /\ genPc' = "settled"
    /\ UNCHANGED <<genStage, genConfig, genOptions, modelAliases, maxRetries,
                   lastError, genModelIdx, attempt, genLog, genOutcome>>

\* the await of line 220 resumes with what the awaited promise holds
GenResumes == genPc = "settled" /\ genRace # Undefined

\* lines 123-127, 220-243: the awaited promise is fulfilled and the cost is
\* computed; #generateOnce resolves and generate returns its value at once
GenAttemptSucceeds ==
    /\ GenResumes
    /\ LET alias == modelAliases[genModelIdx]
       IN  /\ genRace[1].state = "resolves"
           /\ costOf(alias, genConfig.priced) = "ok"
           /\ genLog' = Append(genLog,
                  [model |-> alias, idx |-> genModelIdx, attempt |-> attempt,
                   ok |-> TRUE, value |-> ResponseOf(alias, attempt),
                   race |-> Some(genRace[1].race), late |-> genRace[1].late])
           /\ genOutcome' = <<"returned", ResponseOf(alias, attempt)>>
    /\ genPc' = "returned"
    /\ genRace' = Undefined
    /\ UNCHANGED <<genStage, genConfig, genOptions, modelAliases, maxRetries,
                   lastError, genModelIdx, attempt>>

\* lines 128-135, 220: the awaited promise is rejected (by the provider call
\* or by the timer); the error is kept and the inner loop goes on
GenAttemptFails ==
    /\ GenResumes
    /\ LET alias == modelAliases[genModelIdx]
           error == ErrorOf(alias, attempt, KindOf(genRace[1].state))
       IN  /\ genRace[1].state \in {"rejects", "timeout"}
           /\ genLog' = Append(genLog,
                  [model |-> alias, idx |-> genModelIdx, attempt |-> attempt,
                   ok |-> FALSE, value |-> error, race |-> Some(genRace[1].race),
                   late |-> genRace[1].late])
           /\ lastError' = catchError(lastError, error)
    /\ attempt' = attempt + 1
    /\ genPc' = "loop"
    /\ genRace' = Undefined
    /\ UNCHANGED <<genStage, genConfig, genOptions, modelAliases,
                   maxRetries, genModelIdx, genOutcome>>

\* lines 220-235, 128-135: the awaited promise is fulfilled, then computing
\* the cost throws; the error leaves #generateOnce and is caught like any other
GenCostThrows ==
    /\ GenResumes
    /\ LET alias == modelAliases[genModelIdx]
           error == ErrorOf(alias, attempt, costOf(alias, genConfig.priced))
       IN  /\ genRace[1].state = "resolves"
           /\ costOf(alias, genConfig.priced) # "ok"
           /\ genLog' = Append(genLog,
                  [model |-> alias, idx |-> genModelIdx, attempt |-> attempt,
                   ok |-> FALSE, value |-> error, race |-> Some(genRace[1].race),
                   late |-> genRace[1].late])
           /\ lastError' = catchError(lastError, error)
    /\ attempt' = attempt + 1
    /\ genPc' = "loop"
    /\ genRace' = Undefined
    /\ UNCHANGED <<genStage, genConfig, genOptions, modelAliases,
                   maxRetries, genModelIdx, genOutcome>>

\* lines 255-264: a provider call that lost the race against its timer is
\* still in flight; it resolves now, whatever generate is doing, and with
\* that resolves its input of the race.  The race may be the one generate is
\* about to resume from, or that of an earlier attempt, which nothing awaits
\* any more
GenLateCallSettles ==
    /\ \/ /\ genRace # Undefined
          /\ genRace[1].late = "inflight"
          /\ genRace' = Some([genRace[1] EXCEPT
                                 !.late = "settled",
                                 !.state = settle(@, "resolves")])
          /\ UNCHANGED genLog
       \/ \E i \in DOMAIN genLog :
             /\ genLog[i].late = "inflight"
             /\ genLog' = [genLog EXCEPT ![i].late = "settled"]
             /\ UNCHANGED genRace
    /\ UNCHANGED <<genStage, genConfig, genOptions, genPc, modelAliases, maxRetries,
                   lastError, genModelIdx, attempt, genOutcome>>

\* lines 161-164, 128-135: the alias has no model config; #generateOnce
\* throws before any provider call is made
GenAliasUnknown ==
    /\ GenInLoop
    /\ LET alias == modelAliases[genModelIdx]
           error == ErrorOf(alias, attempt, "alias")
       IN  /\ alias \notin Range(ModelKeys)
           /\ genLog' = Append(genLog,
                  [model |-> alias, idx |-> genModelIdx, attempt |-> attempt,
                   ok |-> FALSE, value |-> error, race |-> Undefined,
                   late |-> "none"])
           /\ lastError' = catchError(lastError, error)
    /\ attempt' = attempt + 1
    /\ UNCHANGED <<genStage, genConfig, genOptions, genPc, modelAliases,
                   maxRetries, genModelIdx, genOutcome, genRace>>

\* lines 123-127, 251-253: no timer is set and the provider call never
\* settles; the attempt, and generate with it, waits for it from now on
GenAttemptHangs ==
    /\ GenInLoop
    /\ \E race \in Races(genConfig.timeoutMs) :
        LET alias == modelAliases[genModelIdx]
        IN  /\ alias \in Range(ModelKeys)
            /\ withTimeout(race.call, genConfig.timeoutMs, race.timerFirst) = "never"
    /\ genPc' = "waiting"
    /\ UNCHANGED <<genStage, genConfig, genOptions, modelAliases, maxRetries,
                   lastError, genModelIdx, attempt, genLog, genOutcome, genRace>>

\* line 121-122: the inner loop is over for this candidate; take the next
GenNextModel ==
    /\ genPc = "loop"
    /\ genModelIdx <= Len(modelAliases)
    /\ ~attemptAllowed(attempt, maxRetries)
    /\ genModelIdx' = genModelIdx + 1
    /\ attempt' = 0
    /\ UNCHANGED <<genStage, genConfig, genOptions, genPc, modelAliases,
                   maxRetries, lastError, genLog, genOutcome, genRace>>

\* line 139: every candidate is exhausted
GenThrow ==
    /\ genPc = "loop"
    /\ genModelIdx > Len(modelAliases)
    /\ genOutcome' = <<"thrown", lastError>>
    /\ genPc' = "thrown"
    /\ UNCHANGED <<genStage, genConfig, genOptions, modelAliases, maxRetries,
                   lastError, genModelIdx, attempt, genLog, genRace>>

\* -------------------------------------------------------- LLMExecuteStage
\* task types the stage is asked about (decompose.ts line 11 lists eight)
ExecuteTaskTypes == {"research", "code"}

\* execute.byType as ConfigLoader.load returns it: absent, or a map from
\* task types to model aliases; the alias of a type may be the empty one
ByTypeMaps ==
    {Undefined}
    \cup {Some([t \in T |-> IF t = "research" THEN a ELSE b]) :
             T \in SUBSET ExecuteTaskTypes, a \in {"m2", ""}, b \in {"m1"}}

\* pipeline.execute as ConfigLoader.load returns it.  validate looks the
\* default up among the keys of models before ${VAR} is expanded; a default
\* "${VAR}" naming the model "${VAR}" passes, and for a VAR that is not set
\* both come back as the empty string
ExecuteConfigs ==
    {[primary |-> c.primary, default |-> IF unset THEN Some("") ELSE c.default,
      fallback |-> c.fallback,
      maxRetries |-> c.maxRetries, timeoutMs |-> c.timeoutMs,
      priced |-> c.priced, byType |-> b] :
        c \in GenConfigs("execute"), unset \in BOOLEAN, b \in ByTypeMaps}

\* #selectModelForTaskType, lines 85-87: byType?.[type] || default
selectModelForTaskType(type, executeConfig) ==
    LET byType == IF executeConfig.byType # Undefined
                     /\ type \in DOMAIN executeConfig.byType[1]
                  THEN Some(executeConfig.byType[1][type])
                  ELSE Undefined
    IN  IF Truthy(byType) THEN byType ELSE executeConfig.default

\* run is called for a task of some type; the stage and the client share
\* config.pipeline.execute
InitExecute ==
    /\ genStage = "execute"
    /\ genConfig \in ExecuteConfigs
    /\ \E type \in ExecuteTaskTypes : genOptions = [type |-> type, modelAlias |-> Undefined]
    /\ genPc = "run"
    /\ modelAliases = <<>>
    /\ maxRetries = 0
    /\ lastError = <<>>
    /\ genModelIdx = 0
    /\ attempt = 0
    /\ genLog = <<>>
    /\ genOutcome = <<>>
    /\ genRace = <<>>

\* run, lines 28-63: the alias is selected and generate("execute", prompt,
\* {modelAlias}) is called
ExecuteSelect ==
    /\ genPc = "run"
    /\ genOptions' = [genOptions EXCEPT
           !.modelAlias = selectModelForTaskType(genOptions.type, genConfig)]
    /\ genPc' = "called"
    /\ UNCHANGED <<genStage, genConfig, modelAliases, maxRetries, lastError,
                   genModelIdx, attempt, genLog, genOutcome, genRace>>

\* lines 68-83: generate resolved; run returns the text as the summary
ExecuteReturns ==
    /\ genPc = "returned"
    /\ genOutcome' = <<"returned", [summary |-> genOutcome[2].text]>>
    /\ genPc' = "runReturned"
    /\ UNCHANGED <<genStage, genConfig, genOptions, modelAliases, maxRetries,
                   lastError, genModelIdx, attempt, genLog, genRace>>

\* lines 64-67: generate rejected; run logs and throws the same error
ExecuteRethrows ==
    /\ genPc = "thrown"
    /\ genPc' = "runThrown"
    /\ UNCHANGED <<genStage, genConfig, genOptions, modelAliases, maxRetries,
                   lastError, genModelIdx, attempt, genLog, genOutcome, genRace>>

\* ------------------------------------------------------ LLMDecomposeStage
RECURSIVE Ascending(_)
Ascending(S) ==
    IF S = {} THEN <<>>
    ELSE LET m == CHOOSE x \in S : \A y \in S : x <= y
         IN  <<m>> \o Ascending(S \ {m})

\* The id `${goal.id}-task-${k}` of one goal's batch is written k.
TaskId(k) == k

\* Variant: the ordinal is used as the task number without the shift.
rewriteDependenciesNoShift(dependencies) ==
    IF dependencies = Undefined THEN <<>>
    ELSE [j \in DOMAIN dependencies[1] |-> TaskId(dependencies[1][j])]

\* t.dependencies?.map(d => `${goal.id}-task-${d + 1}`) || []
rewriteDependencies(dependencies) ==
    IF dependencies = Undefined THEN <<>>
    ELSE [j \in DOMAIN dependencies[1] |-> TaskId(dependencies[1][j] + 1)]

\* validated.tasks.map((t, index) => ({id: ...-task-${index + 1}, ...}))
decomposeTasks(validated) ==
    [i \in DOMAIN validated |->
        NewTask(TaskId((i - 1) + 1), rewriteDependencies(validated[i].dependencies))]

\* Model outputs that pass DecompositionSchema: n >= 1 tasks, each with an
\* optional array of numbers.  Ordinals range over 0..n, n being out of range.
DecomposeOutputsWithin(maxTasks, maxEdges) ==
    UNION {
        {[i \in 1..n |->
            [dependencies |->
                IF \E e \in E : e[1] = i
                THEN Some(Ascending({e[2] : e \in {x \in E : x[1] = i}}))
                ELSE opt]] :
            E \in {X \in SUBSET ((1..n) \X (0..n)) : Cardinality(X) <= maxEdges},
            opt \in {Undefined, Some(<<>>)}}
        : n \in 1..maxTasks}

DecomposeOutputs == DecomposeOutputsWithin(MaxTasks, MaxEdges)

\* ------------------------------------------------------------- Pipeline
\* Configurations (teams and agents) the scheduler runs under.
SchedConfigs ==
    {\* an inactive agent first, then a capable active one
     [teams  |-> [t1 |-> [agents |-> <<"a1", "a2">>]],
      agents |-> [a1 |-> [id |-> "a1", capabilities |-> <<"research">>,
                          isActive |-> FALSE],
                  a2 |-> [id |-> "a2", capabilities |-> <<"research", "writing">>,
                          isActive |-> TRUE]]],
     \* no active agent on the team
     [teams  |-> [t1 |-> [agents |-> <<"a1">>]],
      agents |-> [a1 |-> [id |-> "a1", capabilities |-> <<"research">>,
                          isActive |-> FALSE]]],
     \* the goal's team is not configured
     [teams  |-> [t2 |-> [agents |-> <<"a1">>]],
      agents |-> [a1 |-> [id |-> "a1", capabilities |-> <<"research">>,
                          isActive |-> TRUE]]]}

\* Variant: the roster is not restricted to active agents.
findBestAgentAnyActivity(task, teamId, cfg) ==
    IF teamId \notin DOMAIN cfg.teams THEN Undefined
    ELSE LET ids == cfg.teams[teamId].agents
             known == SelectSeq(ids, LAMBDA id : id \in DOMAIN cfg.agents)
             teamAgents == [j \in DOMAIN known |-> cfg.agents[known[j]]]
             matching == SelectSeq(teamAgents,
                            LAMBDA a : \A c \in Range(task.requiredCapabilities) :
                                          c \in Range(a.capabilities))
         IN  IF matching # <<>> THEN Some(matching[1])
             ELSE IF teamAgents # <<>> THEN Some(teamAgents[1])
             ELSE Undefined

\* #findBestAgent: undefined (null) or the agent chosen.
findBestAgent(task, teamId, cfg) ==
    IF teamId \notin DOMAIN cfg.teams THEN Undefined
    ELSE LET ids == cfg.teams[teamId].agents
             known == SelectSeq(ids, LAMBDA id : id \in DOMAIN cfg.agents)
             teamAgents == SelectSeq([j \in DOMAIN known |-> cfg.agents[known[j]]],
                                     LAMBDA a : a.isActive)
             matching == SelectSeq(teamAgents,
                            LAMBDA a : \A c \in Range(task.requiredCapabilities) :
                                          c \in Range(a.capabilities))
         IN  IF matching # <<>> THEN Some(matching[1])
             ELSE IF teamAgents # <<>> THEN Some(teamAgents[1])
             ELSE Undefined

\* part_003 lines 61-64: what getGoalsDir throws for a team that is not in
\* the configuration
TeamNotFound(teamId) ==
    [name |-> "Error",
     message |-> CASE teamId = "t1" -> "Team not found: t1"
                   [] teamId = "t2" -> "Team not found: t2"
                   [] teamId = "t3" -> "Team not found: t3"
                   [] OTHER -> "Team not found: unknown"]

\* part_003 lines 257-282: #findTeamDirForTask(task.id, goal.teamId), the
\* first step of a task-level report (lines 186-188).  The candidates are the
\* goal's team and the configured teams; the directory of the first one that
\* holds <goalId>.goal.md is returned (g.fileById says there is one); failing
\* that, getGoalsDir of the first candidate, the goal's team, which throws
\* when that team is not configured
findTeamDirForTask(g, cfg) ==
    IF g.fileById \/ g.teamId \in DOMAIN cfg.teams
    THEN [threw |-> FALSE, error |-> Undefined]
    ELSE [threw |-> TRUE, error |-> TeamNotFound(g.teamId)]

allTaskIds == {tasks[i].id : i \in DOMAIN tasks}

\* remaining.get(id): ids are positions in the batch
TaskOf(id) == tasks[id]

unknownDependencies(task, ids) ==
    SelectSeq(task.dependencies, LAMBDA d : d \notin ids)

\* the fourth parameter is not read: the filter looks at failed and blocked
blockedDependencies(task, failedIds, blockedIds, completedIds) ==
    SelectSeq(task.dependencies, LAMBDA d : d \in failedIds \/ d \in blockedIds)

\* Variant: one completed dependency is enough.
waitingDependenciesAny(task, completedIds) ==
    IF \E j \in DOMAIN task.dependencies : task.dependencies[j] \in completedIds
    THEN <<>>
    ELSE SelectSeq(task.dependencies, LAMBDA d : d \notin completedIds)

waitingDependencies(task, completedIds) ==
    SelectSeq(task.dependencies, LAMBDA d : d \notin completedIds)

\* Variant: the entry is not removed.
remainingDeleteNot(rem, id) == rem

\* remaining.delete(taskId)
remainingDelete(rem, id) == SelectSeq(rem, LAMBDA x : x # id)

\* lines 473-479: the status returned by the dispatch picks the set
\* Variant: the completed branch is missing; a completed task lands in blocked.
\* Variant: a failed task is counted as blocked as well.
addOutcomeFailedAlsoBlocked(status, id, sets) ==
    IF status = "completed"
    THEN [sets EXCEPT !.completed = @ \cup {id}]
    ELSE IF status = "failed"
    THEN [sets EXCEPT !.failed = @ \cup {id}, !.blocked = @ \cup {id}]
    ELSE [sets EXCEPT !.blocked = @ \cup {id}]

\* Variant: any outcome other than completed counts as failed.
addOutcomeBlockedAsFailed(status, id, sets) ==
    IF status = "completed"
    THEN [sets EXCEPT !.completed = @ \cup {id}]
    ELSE [sets EXCEPT !.failed = @ \cup {id}]

addOutcomeNoCompleted(status, id, sets) ==
    IF status = "failed"
    THEN [sets EXCEPT !.failed = @ \cup {id}]
    ELSE [sets EXCEPT !.blocked = @ \cup {id}]

addOutcome(status, id, sets) ==
    IF status = "completed"
    THEN [sets EXCEPT !.completed = @ \cup {id}]
    ELSE IF status = "failed"
    THEN [sets EXCEPT !.failed = @ \cup {id}]
    ELSE [sets EXCEPT !.blocked = @ \cup {id}]

\* line 459: blocked.add(task.id)
blockByDependency(id, sets) == [sets EXCEPT !.blocked = @ \cup {id}]

\* lines 485-496: every task still in remaining goes to blocked
blockRemaining(blockedIds, rem) == blockedIds \cup Range(rem)

\* Variant: the start of a task is reported as 'claimed'.
ReportStartAsClaimed(id, status, tag, detail) ==
    [op |-> "report", id |-> id,
     status |-> IF status = "in_progress" THEN "claimed" ELSE status,
     msg |-> <<tag, detail>>, entity |-> "task"]

\* One entry of the call log.
Report(id, status, tag, detail) ==
    [op |-> "report", id |-> id, status |-> status, msg |-> <<tag, detail>>,
     entity |-> "task"]
Call(op, id, arg) ==
    [op |-> op, id |-> id, status |-> "-", msg |-> <<arg>>, entity |-> "-"]

SchedIdle ==
    /\ config = None
    /\ goal = None
    /\ tasks = <<>>
    /\ remaining = <<>>
    /\ completed = {}
    /\ failed = {}
    /\ blocked = {}
    /\ progressed = FALSE
    /\ entries = <<>>
    /\ schedPc = "idle"
    /\ agent = Undefined
    /\ passes = 0
    /\ schedLog = <<>>

\* lines 422-426: the call, on a batch that Decompose returned
InitSched ==
    /\ config \in SchedConfigs
    /\ goal \in [id : {"g"}, teamId : {"t1"}, fileById : BOOLEAN]
    /\ tasks \in {decomposeTasks(out) : out \in DecomposeOutputs}
    /\ remaining = [i \in DOMAIN tasks |-> tasks[i].id]
    /\ completed = {}
    /\ failed = {}
    /\ blocked = {}
    /\ progressed = FALSE
    /\ entries = <<>>
    /\ schedPc = "while"
    /\ agent = Undefined
    /\ passes = 0
    /\ schedLog = <<>>

Cur == Head(entries)

\* lines 428-431: the loop condition holds; a pass begins on a snapshot
SchedPassBegin ==
    /\ schedPc = "while"
    /\ Len(remaining) > 0
    /\ progressed' = FALSE
    /\ entries' = remaining
    /\ passes' = passes + 1
    /\ schedPc' = "for"
    /\ UNCHANGED <<config, goal, tasks, remaining, completed, failed, blocked,
                   agent, schedLog, clock>>

\* lines 428, 501-505: remaining is empty; return the counts
SchedReturn ==
    /\ schedPc = "while"
    /\ Len(remaining) = 0
    /\ schedPc' = "returned"
    /\ UNCHANGED <<config, goal, tasks, remaining, completed, failed, blocked,
                   progressed, entries, agent, passes, schedLog, clock>>

\* lines 432-446; the awaited report of line 436 comes before blocked.add,
\* and when it rejects nothing in the scheduler catches it
SchedBlockUnknown ==
    /\ schedPc = "for"
    /\ entries # <<>>
    /\ LET task == TaskOf(Cur)
           unknown == unknownDependencies(task, allTaskIds)
       IN  /\ Len(unknown) > 0
           /\ schedLog' = Append(schedLog,
                  Report(task.id, "blocked", "Unknown dependencies", unknown))
           /\ IF findTeamDirForTask(goal, config).threw
              THEN /\ schedPc' = "thrown"
                   /\ UNCHANGED <<blocked, remaining, progressed, entries>>
              ELSE /\ blocked' = blocked \cup {task.id}
                   /\ remaining' = remainingDelete(remaining, Cur)
                   /\ progressed' = TRUE
                   /\ entries' = Tail(entries)
                   /\ UNCHANGED schedPc
    /\ UNCHANGED <<config, goal, tasks, completed, failed, agent, passes, clock>>

\* lines 448-463; the awaited report of line 452 comes before blocked.add
SchedBlockByDependency ==
    /\ schedPc = "for"
    /\ entries # <<>>
    /\ LET task == TaskOf(Cur)
           blockedDeps == blockedDependencies(task, failed, blocked, completed)
           sets == blockByDependency(task.id,
                      [completed |-> completed, failed |-> failed, blocked |-> blocked])
       IN  /\ Len(unknownDependencies(task, allTaskIds)) = 0
           /\ Len(blockedDeps) > 0
           /\ schedLog' = Append(schedLog,
                  Report(task.id, "blocked", "Blocked by dependency", blockedDeps))
           /\ IF findTeamDirForTask(goal, config).threw
              THEN /\ schedPc' = "thrown"
                   /\ UNCHANGED <<completed, failed, blocked, remaining,
                                  progressed, entries>>
              ELSE /\ completed' = sets.completed
                   /\ failed' = sets.failed
                   /\ blocked' = sets.blocked
                   /\ remaining' = remainingDelete(remaining, Cur)
                   /\ progressed' = TRUE
                   /\ entries' = Tail(entries)
                   /\ UNCHANGED schedPc
    /\ UNCHANGED <<config, goal, tasks, agent, passes, clock>>

\* the three filters of lines 432-470 all come out empty or not
Ready(task) ==
    /\ Len(unknownDependencies(task, allTaskIds)) = 0
    /\ Len(blockedDependencies(task, failed, blocked, completed)) = 0
    /\ Len(waitingDependencies(task, completed)) = 0

\* lines 465-470: left for a later pass
SchedSkipWaiting ==
    /\ schedPc = "for"
    /\ entries # <<>>
    /\ LET task == TaskOf(Cur)
       IN  /\ Len(unknownDependencies(task, allTaskIds)) = 0
           /\ Len(blockedDependencies(task, failed, blocked, completed)) = 0
           /\ Len(waitingDependencies(task, completed)) > 0
    /\ entries' = Tail(entries)
    /\ UNCHANGED <<config, goal, tasks, remaining, completed, failed, blocked,
                   progressed, schedPc, agent, passes, schedLog, clock>>

\* lines 472, 513: the task is handed to #executeTaskWithAgentMatching,
\* whose first step is the agent lookup; no agent: lines 515-526.  When the
\* awaited report of line 519 rejects, so does the dispatch of line 473
SchedNoAgent ==
    /\ schedPc = "for"
    /\ entries # <<>>
    /\ Ready(TaskOf(Cur))
    /\ LET task == TaskOf(Cur)
           found == findBestAgent(task, goal.teamId, config)
           sets == addOutcome("blocked", task.id,
                      [completed |-> completed, failed |-> failed, blocked |-> blocked])
       IN  /\ found = Undefined
           /\ schedLog' = schedLog \o
                  <<Call("findBestAgent", task.id, Undefined),
                    Report(task.id, "blocked", "No agent available",
                           task.requiredCapabilities)>>
           /\ IF findTeamDirForTask(goal, config).threw
              THEN /\ schedPc' = "thrown"
                   /\ UNCHANGED <<completed, failed, blocked, remaining,
                                  progressed, entries>>
              ELSE /\ completed' = sets.completed
                   /\ failed' = sets.failed
                   /\ blocked' = sets.blocked
                   /\ remaining' = remainingDelete(remaining, Cur)
                   /\ progressed' = TRUE
                   /\ entries' = Tail(entries)
                   /\ UNCHANGED schedPc
    /\ UNCHANGED <<config, goal, tasks, agent, passes, clock>>

\* lines 472, 513, 528: an agent is found.  Its team is then a configured
\* one, so #findTeamDirForTask returns and the reports of lines 535-602
\* resolve
SchedAgentFound ==
    /\ schedPc = "for"
    /\ entries # <<>>
    /\ Ready(TaskOf(Cur))
    /\ LET task == TaskOf(Cur)
           found == findBestAgent(task, goal.teamId, config)
       IN  /\ found # Undefined
           /\ agent' = found
           /\ schedLog' = Append(schedLog, Call("findBestAgent", task.id, found[1].id))
    /\ schedPc' = "clarify"
    /\ UNCHANGED <<config, goal, tasks, remaining, completed, failed, blocked,
                   progressed, entries, passes, clock>>

\* the dispatch of the current task returns `status`: lines 473-481
Settle(status) ==
    LET sets == addOutcome(status, Cur,
                   [completed |-> completed, failed |-> failed, blocked |-> blocked])
    IN  /\ completed' = sets.completed
        /\ failed' = sets.failed
        /\ blocked' = sets.blocked
        /\ remaining' = remainingDelete(remaining, Cur)
        /\ progressed' = TRUE
        /\ entries' = Tail(entries)
        /\ schedPc' = "for"

\* lines 531-541: task-level Clarify answers "blocking"
SchedClarifyBlocking ==
    /\ schedPc = "clarify"
    /\ schedLog' = schedLog \o
           <<Call("shouldAskForTask", Cur, "blocking"),
             Report(Cur, "blocked", "Needs clarification", <<>>)>>
    /\ Settle("blocked")
    /\ UNCHANGED <<config, goal, tasks, agent, passes, clock>>

\* lines 531-535: task-level Clarify answers "not blocking"
SchedClarifyClear ==
    /\ schedPc = "clarify"
    /\ schedLog' = Append(schedLog, Call("shouldAskForTask", Cur, "clear"))
    /\ schedPc' = "claim"
    /\ UNCHANGED <<config, goal, tasks, remaining, completed, failed, blocked,
                   progressed, entries, agent, passes, clock>>

\* line 531: the Clarify invocation rejects (generate exhausted, invalid
\* JSON, schema violation); nothing catches it inside the scheduler
SchedClarifyThrows ==
    /\ schedPc = "clarify"
    /\ schedLog' = Append(schedLog, Call("shouldAskForTask", Cur, "throws"))
    /\ schedPc' = "thrown"
    /\ UNCHANGED <<config, goal, tasks, remaining, completed, failed, blocked,
                   progressed, entries, agent, passes, clock>>

\* Variant: the task is marked claimed before the adapter is asked.
SchedClaimRefusedMarksClaimed ==
    /\ schedPc = "claim"
    /\ schedLog' = Append(schedLog, Call("claim", Cur, FALSE))
    /\ tasks' = [tasks EXCEPT ![Cur] = transition(TaskOf(Cur), "claimed", clock + 1).task]
    /\ clock' = clock + 1
    /\ Settle("blocked")
    /\ UNCHANGED <<config, goal, agent, passes>>

\* lines 544-548: the adapter refuses the claim
SchedClaimRefused ==
    /\ schedPc = "claim"
    /\ schedLog' = Append(schedLog, Call("claim", Cur, FALSE))
    /\ Settle("blocked")
    /\ UNCHANGED <<config, goal, tasks, agent, passes, clock>>

\* lines 544-571: the claim is granted; pending -> claimed -> in_progress
SchedClaimGranted ==
    /\ schedPc = "claim"
    /\ LET id == Cur
           r1 == transition(TaskOf(id), "claimed", clock + 1)
           r2 == transition(r1.task, "in_progress", clock + 1)
       IN  IF ~r1.result.success
           THEN /\ schedPc' = "thrown"
                /\ schedLog' = Append(schedLog, Call("claim", id, TRUE))
                /\ UNCHANGED <<tasks, clock>>
           ELSE IF ~r2.result.success
           THEN /\ schedPc' = "thrown"
                /\ schedLog' = Append(schedLog, Call("claim", id, TRUE))
                /\ tasks' = [tasks EXCEPT ![id] = r1.task]
                /\ clock' = clock + 1
           ELSE /\ schedPc' = "execute"
                /\ schedLog' = schedLog \o
                       <<Call("claim", id, TRUE),
                         Report(id, "in_progress", "Assigned to", agent[1].id)>>
                /\ tasks' = [tasks EXCEPT ![id] = r2.task]
                /\ clock' = clock + 1
    /\ UNCHANGED <<config, goal, remaining, completed, failed, blocked,
                   progressed, entries, agent, passes>>

\* lines 573-590: the Execute stage resolves
SchedExecuteSucceeds ==
    /\ schedPc = "execute"
    /\ LET id == Cur
           withResult == [TaskOf(id) EXCEPT !.result = Some(<<"summary", id>>)]
           r == transition(withResult, "completed", clock + 1)
           rf == transition(withResult, "failed", clock + 1)
       IN  IF r.result.success
           THEN /\ tasks' = [tasks EXCEPT ![id] = r.task]
                /\ schedLog' = schedLog \o
                       <<Call("run", id, "resolved"),
                         Report(id, "completed", "summary", id)>>
                /\ Settle("completed")
           ELSE \* the throw of line 582 lands in the catch of line 591
                /\ tasks' = [tasks EXCEPT ![id] = rf.task]
                /\ schedLog' = schedLog \o
                       <<Call("run", id, "resolved"),
                         Report(id, "failed", "error", id)>>
                /\ Settle("failed")
    /\ clock' = clock + 1
    /\ UNCHANGED <<config, goal, agent, passes>>

\* lines 574, 591-604: the Execute stage rejects
SchedExecuteFails ==
    /\ schedPc = "execute"
    /\ LET id == Cur
           r == transition(TaskOf(id), "failed", clock + 1)
       IN  /\ tasks' = [tasks EXCEPT ![id] = r.task]
           /\ schedLog' = schedLog \o
                  <<Call("run", id, "rejected"), Report(id, "failed", "error", id)>>
    /\ Settle("failed")
    /\ clock' = clock + 1
    /\ UNCHANGED <<config, goal, agent, passes>>

\* line 482-484: the for loop is over and the pass removed something
SchedPassEnd ==
    /\ schedPc = "for"
    /\ entries = <<>>
    /\ progressed
    /\ schedPc' = "while"
    /\ UNCHANGED <<config, goal, tasks, remaining, completed, failed, blocked,
                   progressed, entries, agent, passes, schedLog, clock>>

\* lines 484-498, 501-505: the pass removed nothing; every remaining task is
\* reported blocked and the loop is left.  Each report is awaited before its
\* blocked.add, so when the reports reject the first one ends the call
SchedNoProgress ==
    /\ schedPc = "for"
    /\ entries = <<>>
    /\ ~progressed
    /\ LET reports == [j \in DOMAIN remaining |->
               Report(remaining[j], "blocked", "Unresolvable dependencies",
                      waitingDependencies(TaskOf(remaining[j]), completed))]
       IN  IF findTeamDirForTask(goal, config).threw
           THEN /\ schedLog' = Append(schedLog, reports[1])
                /\ schedPc' = "thrown"
                /\ UNCHANGED blocked
           ELSE /\ schedLog' = schedLog \o reports
                /\ blocked' = blockRemaining(blocked, remaining)
                /\ schedPc' = "returned"
    /\ UNCHANGED <<config, goal, tasks, remaining, completed, failed,
                   progressed, entries, agent, passes, clock>>

\* the scheduler touches no variable of the other components
SchedFrame == UNCHANGED <<smVars, genVars, cycleVars, claimVars, queryVars, discordVars, fsVars>>

NextSched ==
    \/ SchedPassBegin /\ SchedFrame
    \/ SchedReturn /\ SchedFrame
    \/ SchedBlockUnknown /\ SchedFrame
    \/ SchedBlockByDependency /\ SchedFrame
    \/ SchedSkipWaiting /\ SchedFrame
    \/ SchedNoAgent /\ SchedFrame
    \/ SchedAgentFound /\ SchedFrame
    \/ SchedClarifyBlocking /\ SchedFrame
    \/ SchedClarifyClear /\ SchedFrame
    \/ SchedClarifyThrows /\ SchedFrame
    \/ SchedClaimRefused /\ SchedFrame
    \/ SchedClaimGranted /\ SchedFrame
    \/ SchedExecuteSucceeds /\ SchedFrame
    \/ SchedExecuteFails /\ SchedFrame
    \/ SchedPassEnd /\ SchedFrame
    \/ SchedNoProgress /\ SchedFrame

\* ------------------------------------------------ runCycle / #processGoal
\* An Error object, and String(error) as the catch of line 409 reports it.
ErrorOfStage(stage) == [name |-> "Error", message |-> stage]
StringOfError(error) == <<error.name, ": ", error.message>>

GoalReport(id, status, message) ==
    [op |-> "report", id |-> id, status |-> status, msg |-> message,
     entity |-> "goal"]
GoalCall(op, id, arg) ==
    [op |-> op, id |-> id, status |-> "-", msg |-> <<arg>>, entity |-> "-"]

\* Variant: a blocked task outranks a failed one.
deriveGoalStatusBlockedFirst(summary) ==
    IF summary.blocked > 0 THEN "blocked"
    ELSE IF summary.failed > 0 THEN "failed"
    ELSE "completed"

\* lines 383-408: the goal-level status derived from the summary
deriveGoalStatus(summary) ==
    IF summary.failed > 0 THEN "failed"
    ELSE IF summary.blocked > 0 THEN "blocked"
    ELSE "completed"

\* lines 384-408: the message that goes with the derived status (the
\* template; the counts it interpolates are left out)
summaryMessage(summary) ==
    IF summary.failed > 0 THEN <<"task(s) failed, completed">>
    ELSE IF summary.blocked > 0 THEN <<"task(s) blocked, completed">>
    ELSE <<"All tasks completed">>

\* Variant: the goal is reported blocked without asking anything.
blockingClarificationCallsNoRequest(goalId) ==
    <<GoalReport(goalId, "blocked", <<"Blocking clarification required">>)>>

\* Variant: the clarification is requested but the goal is not reported.
blockingClarificationCallsNoReport(goalId) ==
    <<GoalCall("requestClarification", goalId, "questions")>>

\* lines 360-369: what a blocking goal-level clarification makes the
\* pipeline call before it returns
blockingClarificationCalls(goalId) ==
    <<GoalCall("requestClarification", goalId, "questions"),
      GoalReport(goalId, "blocked", <<"Blocking clarification required">>)>>

\* Variant: the failure is reported with a fixed message.
processGoalCatchGeneric(goalId, error) ==
    [calls   |-> <<GoalReport(goalId, "failed", <<"Goal processing failed">>)>>,
     rethrow |-> FALSE]

\* Variant: the failure is reported, then thrown on to runCycle.
processGoalCatchRethrow(goalId, error) ==
    [calls   |-> <<GoalReport(goalId, "failed", StringOfError(error))>>,
     rethrow |-> TRUE]

\* lines 409-415: the catch of #processGoal
processGoalCatch(goalId, error) ==
    [calls   |-> <<GoalReport(goalId, "failed", StringOfError(error))>>,
     rethrow |-> FALSE]

\* ids a goal file may carry
GoalIds == {<<"g", k>> : k \in 1..MaxGoals}

\* pollGoals: up to MaxGoals pending goals.  Nothing makes their ids distinct
\* (two files may carry the same id line, or get the same generated id), and
\* a goal without a team line has the team "unknown"
PolledGoals ==
    UNION {[1..n -> [id : GoalIds, teamId : {"t1", "unknown"}, fileById : BOOLEAN]] :
              n \in 0..MaxGoals}

CurGoal == cycleGoals[cycleIdx]

\* line 335: pollGoals has returned
InitCycle ==
    /\ config \in SchedConfigs
    /\ cycleGoals \in PolledGoals
    /\ cycleIdx = 0
    /\ cyclePc = "loop"
    /\ goalLog = <<>>
    /\ goal = None
    /\ tasks = <<>>
    /\ remaining = <<>>
    /\ completed = {}
    /\ failed = {}
    /\ blocked = {}
    /\ progressed = FALSE
    /\ entries = <<>>
    /\ schedPc = "idle"
    /\ agent = Undefined
    /\ passes = 0
    /\ schedLog = <<>>

\* the locals of the previous goal's calls are gone
FreshLocals ==
    /\ goal' = None
    /\ tasks' = <<>>
    /\ remaining' = <<>>
    /\ completed' = {}
    /\ failed' = {}
    /\ blocked' = {}
    /\ progressed' = FALSE
    /\ entries' = <<>>
    /\ schedPc' = "idle"
    /\ agent' = Undefined
    /\ passes' = 0
    /\ schedLog' = <<>>

\* lines 341-342, 346-349: the for loop takes the next goal
CycleGoalBegin ==
    /\ cyclePc = "loop"
    /\ cycleIdx < Len(cycleGoals)
    /\ cycleIdx' = cycleIdx + 1
    /\ cyclePc' = "parse"
    /\ FreshLocals
    /\ UNCHANGED <<config, cycleGoals, goalLog, clock>>

\* lines 341-344: no goal is left; runCycle resolves
CycleDone ==
    /\ cyclePc = "loop"
    /\ cycleIdx = Len(cycleGoals)
    /\ cyclePc' = "done"
    /\ UNCHANGED <<schedVars, cycleGoals, cycleIdx, goalLog, clock>>

\* lines 409-415 (and 342 when the catch throws on)
Caught(calls, error) ==
    LET c == processGoalCatch(CurGoal.id, error)
    IN  /\ goalLog' = goalLog \o calls \o c.calls
        /\ cyclePc' = IF c.rethrow THEN "rejected" ELSE "loop"

\* lines 351-354: Parse resolves; the parsed goal keeps the id and the team
CycleParseOk ==
    /\ cyclePc = "parse"
    /\ goal' = CurGoal
    /\ goalLog' = Append(goalLog, GoalCall("parse", CurGoal.id, "resolved"))
    /\ cyclePc' = "clarify"
    /\ UNCHANGED <<config, tasks, remaining, completed, failed, blocked, progressed,
                   entries, schedPc, agent, passes, schedLog, cycleGoals, cycleIdx,
                   clock>>

\* line 352: Parse rejects
CycleParseThrows ==
    /\ cyclePc = "parse"
    /\ Caught(<<GoalCall("parse", CurGoal.id, "throws")>>, ErrorOfStage("parse"))
    /\ UNCHANGED <<schedVars, cycleGoals, cycleIdx, clock>>

\* lines 358-360: goal-level Clarify answers "not blocking"
CycleClarifyClear ==
    /\ cyclePc = "clarify"
    /\ goalLog' = Append(goalLog, GoalCall("shouldAsk", CurGoal.id, "clear"))
    /\ cyclePc' = "decompose"
    /\ UNCHANGED <<schedVars, cycleGoals, cycleIdx, clock>>

\* lines 358-369: goal-level Clarify answers "blocking"
CycleClarifyBlocking ==
    /\ cyclePc = "clarify"
    /\ goalLog' = goalLog \o <<GoalCall("shouldAsk", CurGoal.id, "blocking")>>
                      \o blockingClarificationCalls(CurGoal.id)
    /\ cyclePc' = "loop"
    /\ UNCHANGED <<schedVars, cycleGoals, cycleIdx, clock>>

\* line 358: goal-level Clarify rejects
CycleClarifyThrows ==
    /\ cyclePc = "clarify"
    /\ Caught(<<GoalCall("shouldAsk", CurGoal.id, "throws")>>, ErrorOfStage("clarify"))
    /\ UNCHANGED <<schedVars, cycleGoals, cycleIdx, clock>>

\* lines 373-381, 422-426: Decompose resolves and the scheduler is entered
CycleDecomposeOk ==
    /\ cyclePc = "decompose"
    /\ \E out \in DecomposeOutputsWithin(MaxCycleTasks, MaxCycleEdges) :
          /\ tasks' = decomposeTasks(out)
          /\ remaining' = [i \in DOMAIN out |-> decomposeTasks(out)[i].id]
    /\ goalLog' = Append(goalLog, GoalCall("decompose", CurGoal.id, "resolved"))
    /\ schedPc' = "while"
    /\ cyclePc' = "execute"
    /\ UNCHANGED <<config, goal, completed, failed, blocked, progressed, entries,
                   agent, passes, schedLog, cycleGoals, cycleIdx, clock>>

\* line 373: Decompose rejects
CycleDecomposeThrows ==
    /\ cyclePc = "decompose"
    /\ Caught(<<GoalCall("decompose", CurGoal.id, "throws")>>, ErrorOfStage("decompose"))
    /\ UNCHANGED <<schedVars, cycleGoals, cycleIdx, clock>>

\* lines 378-408: the scheduler returned its summary; the derived status is
\* reported
CycleGoalSettled ==
    /\ cyclePc = "execute"
    /\ schedPc = "returned"
    /\ LET summary == [completed |-> Cardinality(completed),
                       failed    |-> Cardinality(failed),
                       blocked   |-> Cardinality(blocked)]
       IN  goalLog' = Append(goalLog,
               GoalReport(CurGoal.id, deriveGoalStatus(summary), summaryMessage(summary)))
    /\ cyclePc' = "loop"
    /\ UNCHANGED <<schedVars, cycleGoals, cycleIdx, clock>>

\* the error #executeTasksWithDependencies rejected with is that of its last
\* call: a task-level report (part_003 line 63) or task-level Clarify
schedulerError ==
    IF schedLog # <<>> /\ schedLog[Len(schedLog)].op = "report"
    THEN findTeamDirForTask(goal, config).error
    ELSE ErrorOfStage("task")

\* lines 378, 409-415: the scheduler was aborted by an error
CycleSchedulerThrew ==
    /\ cyclePc = "execute"
    /\ schedPc = "thrown"
    /\ Caught(<<>>, schedulerError)
    /\ UNCHANGED <<schedVars, cycleGoals, cycleIdx, clock>>

CycleFrame == UNCHANGED <<smVars, genVars, claimVars, queryVars, discordVars, fsVars>>

NextCycle ==
    \/ CycleGoalBegin /\ CycleFrame
    \/ CycleDone /\ CycleFrame
    \/ CycleParseOk /\ CycleFrame
    \/ CycleParseThrows /\ CycleFrame
    \/ CycleClarifyClear /\ CycleFrame
    \/ CycleClarifyBlocking /\ CycleFrame
    \/ CycleClarifyThrows /\ CycleFrame
    \/ CycleDecomposeOk /\ CycleFrame
    \/ CycleDecomposeThrows /\ CycleFrame
    \/ CycleGoalSettled /\ CycleFrame
    \/ CycleSchedulerThrew /\ CycleFrame
    \/ NextSched

\* ------------------------------------------------------- GoalSource.claim
\* The ids claimed and the workers claiming. Worker a1 has a discordId in
\* the configuration, worker a2 has none.
ClaimIds == {"g1", "g1-task-1"}
ClaimAgents == {"a1", "a2"}
discordId(agentId) == IF agentId = "a1" THEN Some("d1") ELSE Undefined

TeamName(k) == <<"team", k>>

\* FileSystemAdapter.claim, line 163: the lock file of an id in a team's
\* goals directory
lockFile(teamId, inputId) == <<teamId, inputId>>

\* writeFile(lockFile, agentId, {flag: "wx"}): creates the file and resolves
\* if it does not exist, rejects if it does; one step of the file system
writeFileWx(files, file) ==
    [ok |-> file \notin files, files |-> files \cup {file}]

\* part_001 lines 84-91: DiscordAdapter.claim
discordClaim(agentId) == discordId(agentId) # Undefined

InitClaim ==
    /\ claimAdapter \in {"filesystem", "discord"}
    /\ \E n \in 0..MaxTeams : claimTeams = [k \in 1..n |-> TeamName(k)]
    /\ lockFiles = {}
    /\ claimCalls = <<>>

\* a claim for the same id has already returned true
ClaimedBefore(inputId) ==
    \E i \in DOMAIN claimCalls :
        claimCalls[i].inputId = inputId /\ claimCalls[i].result = "true"

\* claim(inputId, agentId) is called; the loop of line 161 is before its
\* first team
ClaimBegin ==
    /\ Len(claimCalls) < MaxClaimCalls
    /\ \E inputId \in ClaimIds, agentId \in ClaimAgents :
          claimCalls' = Append(claimCalls,
              [inputId |-> inputId, agentId |-> agentId, pos |-> 1,
               result |-> "running", late |-> ClaimedBefore(inputId)])
    /\ UNCHANGED <<claimAdapter, claimTeams, lockFiles>>

\* part_003 lines 161-168: the lock file is created in the team's directory
ClaimLockCreated ==
    \E i \in DOMAIN claimCalls :
        LET c == claimCalls[i]
        IN  /\ claimAdapter = "filesystem"
            /\ c.result = "running"
            /\ c.pos <= Len(claimTeams)
            /\ LET w == writeFileWx(lockFiles, lockFile(claimTeams[c.pos], c.inputId))
               IN  /\ w.ok
                   /\ lockFiles' = w.files
            /\ claimCalls' = [claimCalls EXCEPT ![i].result = "true"]
            /\ UNCHANGED <<claimAdapter, claimTeams>>

\* part_003 lines 161-171: writeFile rejects; the loop goes to the next team
ClaimLockExists ==
    \E i \in DOMAIN claimCalls :
        LET c == claimCalls[i]
        IN  /\ claimAdapter = "filesystem"
            /\ c.result = "running"
            /\ c.pos <= Len(claimTeams)
            /\ ~writeFileWx(lockFiles, lockFile(claimTeams[c.pos], c.inputId)).ok
            /\ claimCalls' = [claimCalls EXCEPT ![i].pos = c.pos + 1]
            /\ UNCHANGED <<claimAdapter, claimTeams, lockFiles>>

\* part_003 lines 173-176: no team is left
ClaimReturnsFalse ==
    \E i \in DOMAIN claimCalls :
        LET c == claimCalls[i]
        IN  /\ claimAdapter = "filesystem"
            /\ c.result = "running"
            /\ c.pos > Len(claimTeams)
            /\ claimCalls' = [claimCalls EXCEPT ![i].result = "false"]
            /\ UNCHANGED <<claimAdapter, claimTeams, lockFiles>>

\* part_001 lines 84-91: the whole of DiscordAdapter.claim
ClaimDiscord ==
    \E i \in DOMAIN claimCalls :
        LET c == claimCalls[i]
        IN  /\ claimAdapter = "discord"
            /\ c.result = "running"
            /\ claimCalls' = [claimCalls EXCEPT
                   ![i].result = IF discordClaim(c.agentId) THEN "true" ELSE "false"]
            /\ UNCHANGED <<claimAdapter, claimTeams, lockFiles>>

ClaimFrame == UNCHANGED <<smVars, clock, genVars, schedVars, cycleVars, queryVars,
                         discordVars, fsVars>>

NextClaim ==
    \/ ClaimBegin /\ ClaimFrame
    \/ ClaimLockCreated /\ ClaimFrame
    \/ ClaimLockExists /\ ClaimFrame
    \/ ClaimReturnsFalse /\ ClaimFrame
    \/ ClaimDiscord /\ ClaimFrame


\* ------------------------------------------------- #findBestAgent, asked
\* Capability lists, roster entries (a3 is on no agent list of the
\* configuration) and the configurations the router is asked about.
CapabilityLists == {<<>>, <<"research">>, <<"writing">>, <<"research", "writing">>}
RosterIds == {"a1", "a2", "a3"}
Rosters == UNION {[1..n -> RosterIds] : n \in 0..MaxRoster}

RouteConfigs ==
    {[teams  |-> [t \in {team} |-> [agents |-> roster]],
      agents |-> [a1 |-> [id |-> "a1", capabilities |-> c1, isActive |-> b1],
                  a2 |-> [id |-> "a2", capabilities |-> c2, isActive |-> b2]]] :
        team \in {"t1", "t2"}, roster \in Rosters,
        c1 \in CapabilityLists, c2 \in CapabilityLists,
        b1 \in BOOLEAN, b2 \in BOOLEAN}

\* the team every question is about
RouteTeam == "t1"

InitRoute ==
    \E cfg \in RouteConfigs, req \in CapabilityLists :
        routeQuery = [asked |-> FALSE, cfg |-> cfg,
                      task |-> [requiredCapabilities |-> req],
                      teamId |-> RouteTeam, result |-> Undefined]

\* lines 607-628: one call of #findBestAgent
RouteAsk ==
    /\ ~routeQuery.asked
    /\ routeQuery' = [routeQuery EXCEPT
           !.asked = TRUE,
           !.result = findBestAgent(routeQuery.task, routeQuery.teamId, routeQuery.cfg)]
    /\ UNCHANGED <<clarifyQuery, decomposeQuery, configQuery, onceQuery>>

RouteFrame == UNCHANGED <<smVars, clock, genVars, schedVars, cycleVars, claimVars,
                         discordVars, fsVars>>

NextRoute ==
    \/ RouteAsk /\ RouteFrame


\* ------------------------------------------ shouldAsk / shouldAskForTask
\* ClarificationSchema, clarify.ts lines 9-21: confidence ranges over 0..100
\* (whole numbers here; the only use made of it is the comparison with the
\* threshold, itself a whole number). Of a question only the blocking flag
\* enters the decision.
MaxConfidence == 100
GoalBlockingBelow == 60
TaskBlockingBelow == 60

QuestionLists == UNION {[1..n -> [blocking : BOOLEAN]] : n \in 0..MaxQuestions}

ClarificationOutputs ==
    [isClearEnough : BOOLEAN, confidence : 0..MaxConfidence, questions : QuestionLists]

\* Variant: a confidence equal to the threshold blocks too.
shouldAskInclusive(validated) ==
    LET hasBlocking == \E i \in DOMAIN validated.questions : validated.questions[i].blocking
    IN  [shouldAsk |-> Len(validated.questions) > 0,
         blocking  |-> \/ ~validated.isClearEnough
                       \/ validated.confidence <= GoalBlockingBelow
                       \/ hasBlocking,
         questions |-> validated.questions]

\* clarify.ts lines 77-96: what shouldAsk returns for a validated output
shouldAsk(validated) ==
    LET hasBlocking == \E i \in DOMAIN validated.questions : validated.questions[i].blocking
    IN  [shouldAsk |-> Len(validated.questions) > 0,
         blocking  |-> \/ ~validated.isClearEnough
                       \/ validated.confidence < GoalBlockingBelow
                       \/ hasBlocking,
         questions |-> validated.questions]

\* clarify.ts lines 125-144: what shouldAskForTask returns
shouldAskForTask(validated) ==
    LET hasBlocking == \E i \in DOMAIN validated.questions : validated.questions[i].blocking
    IN  [shouldAsk |-> Len(validated.questions) > 0,
         blocking  |-> \/ ~validated.isClearEnough
                       \/ validated.confidence < TaskBlockingBelow
                       \/ hasBlocking,
         questions |-> validated.questions]

\* the model's output has passed ClarificationSchema.parse (lines 77, 125)
InitClarify ==
    \E validated \in ClarificationOutputs :
        clarifyQuery = [validated |-> validated, goal |-> Undefined, task |-> Undefined]

\* shouldAsk is given the output
ClarifyGoalAsk ==
    /\ clarifyQuery.goal = Undefined
    /\ clarifyQuery' = [clarifyQuery EXCEPT !.goal = Some(shouldAsk(clarifyQuery.validated))]
    /\ UNCHANGED <<routeQuery, decomposeQuery, configQuery, onceQuery>>

\* shouldAskForTask is given the same output
ClarifyTaskAsk ==
    /\ clarifyQuery.task = Undefined
    /\ clarifyQuery' =
          [clarifyQuery EXCEPT !.task = Some(shouldAskForTask(clarifyQuery.validated))]
    /\ UNCHANGED <<routeQuery, decomposeQuery, configQuery, onceQuery>>

ClarifyFrame == UNCHANGED <<smVars, clock, genVars, schedVars, cycleVars, claimVars,
                           discordVars, fsVars>>

NextClarify ==
    \/ ClarifyGoalAsk /\ ClarifyFrame
    \/ ClarifyTaskAsk /\ ClarifyFrame


\* ------------------------------------------- Pipeline.#requestClarification
\* the questions goal-level Clarify may return (clarify.ts lines 12-19)
Urgencies == {"low", "medium", "high"}
AskedQuestions ==
    UNION {[1..n -> [question : {"q1", "q2"}, blocking : BOOLEAN, urgency : Urgencies]] :
              n \in 0..MaxQuestions}

\* `${i + 1}` for the 0-based index i, by 1-based position
DecimalOf == <<"1", "2", "3", "4", "5", "6", "7", "8", "9">>

\* lines 634-639: one line per question; the lines are joined with "\n".
\* A line is the sequence of the pieces interpolated into it.
requestClarificationMessage(questions) ==
    [i \in DOMAIN questions |->
        <<DecimalOf[i], ". [", IF questions[i].blocking THEN "BLOCKING" ELSE "Non-blocking",
          "] ", questions[i].question>>]

InitRequest ==
    \E questions \in AskedQuestions :
        clarifyQuery = [questions |-> questions, sent |-> Undefined]

\* lines 630-642: #requestClarification hands the message to the adapter
RequestClarification ==
    /\ clarifyQuery.sent = Undefined
    /\ clarifyQuery' = [clarifyQuery EXCEPT
           !.sent = Some(requestClarificationMessage(clarifyQuery.questions))]
    /\ UNCHANGED <<routeQuery, decomposeQuery, configQuery, onceQuery>>

NextRequest == RequestClarification /\ ClarifyFrame

\* ------------------------------------------- LLMDecomposeStage.run, asked
\* DecompositionSchema, decompose.ts line 18: tasks: z.array(...).min(1).max(10)
SchemaMinTasks == 1
SchemaMaxTasks == 10

\* the subsets of S with at most k elements
RECURSIVE SubsetsUpTo(_, _)
SubsetsUpTo(S, k) ==
    IF k = 0 THEN {{}}
    ELSE LET smaller == SubsetsUpTo(S, k - 1)
         IN  smaller \cup {X \cup {e} : X \in smaller, e \in S}

\* What JSON.parse hands to DecompositionSchema.parse: a list of 0 to 11
\* tasks, each with an absent or present array of ordinals (0..n, n being out
\* of range), at most MaxQueryEdges ordinals in all.
ParsedDecompositions ==
    UNION {
        {[i \in 1..n |->
            [dependencies |->
                IF \E e \in E : e[1] = i
                THEN Some(Ascending({e[2] : e \in {x \in E : x[1] = i}}))
                ELSE opt]] :
            E \in SubsetsUpTo((1..n) \X (0..n), MaxQueryEdges),
            opt \in {Undefined, Some(<<>>)}}
        : n \in 0..(SchemaMaxTasks + 1)}

\* DecompositionSchema.parse (line 52): the list passes or a ZodError is thrown
schemaAccepts(parsed) ==
    /\ Len(parsed) >= SchemaMinTasks
    /\ Len(parsed) <= SchemaMaxTasks

\* lines 51-69: from the parsed output to the returned tasks, or the throw
decomposeRun(parsed) ==
    IF schemaAccepts(parsed)
    THEN [outcome |-> "returned", tasks |-> decomposeTasks(parsed)]
    ELSE [outcome |-> "throws", tasks |-> <<>>]

InitDecompose ==
    \E parsed \in ParsedDecompositions :
        decomposeQuery = [parsed |-> parsed, outcome |-> "pending", tasks |-> <<>>]

\* one call of run, from the parsed model output on
DecomposeRun ==
    /\ decomposeQuery.outcome = "pending"
    /\ LET r == decomposeRun(decomposeQuery.parsed)
       IN  decomposeQuery' = [decomposeQuery EXCEPT !.outcome = r.outcome,
                                                    !.tasks = r.tasks]
    /\ UNCHANGED <<routeQuery, clarifyQuery, configQuery, onceQuery>>

DecomposeFrame == UNCHANGED <<smVars, clock, genVars, schedVars, cycleVars, claimVars,
                             discordVars, fsVars>>

NextDecompose ==
    \/ DecomposeRun /\ DecomposeFrame

\* ------------------------------------------------- StateMachine driver spec
CycleIdle ==
    /\ cycleGoals = <<>>
    /\ cycleIdx = 0
    /\ cyclePc = "idle"
    /\ goalLog = <<>>

ClaimIdle ==
    /\ claimAdapter = "filesystem"
    /\ claimTeams = <<>>
    /\ lockFiles = {}
    /\ claimCalls = <<>>

QueryIdle ==
    /\ routeQuery = None
    /\ clarifyQuery = None
    /\ decomposeQuery = None
    /\ configQuery = None
    /\ onceQuery = None

\* the adapter object as constructed (part_001 lines 27, 30-39)
DiscordIdle ==
    /\ isReady = FALSE
    /\ discordPc = "constructed"
    /\ discordLog = <<>>

\* no goal file, no cycle run
FsIdle ==
    /\ fsFiles = <<>>
    /\ fsQueue = <<>>
    /\ fsPolls = 0
    /\ fsLog = <<>>

OthersIdle == CycleIdle /\ ClaimIdle /\ QueryIdle /\ DiscordIdle /\ FsIdle

NoQuery == [asked |-> FALSE, from |-> "pending", to |-> "pending",
            can |-> FALSE, allowed |-> <<>>]

SMIdle ==
    /\ smTask = NewTask(1, <<>>)
    /\ smPrev = smTask
    /\ smArg = None
    /\ smResult = [success |-> TRUE, error |-> Undefined]
    /\ smQuery = NoQuery

InitSM ==
    /\ GenIdle
    /\ SchedIdle
    /\ OthersIdle
    /\ \E s \in TaskStatus : smTask = [NewTask(1, <<>>) EXCEPT !.status = s]
    /\ smPrev = smTask
    /\ smArg = None
    /\ smResult = [success |-> TRUE, error |-> Undefined]
    /\ smQuery = NoQuery
    /\ clock = 0

SMTransition ==
    \E to \in TaskStatus, now \in {clock, clock + 1} :
        /\ now <= MaxClock
        /\ LET r == transition(smTask, to, now)
           IN  /\ smTask' = r.task
               /\ smResult' = r.result
        /\ smPrev' = smTask
        /\ smArg' = to
        /\ clock' = now
        /\ UNCHANGED <<smQuery, genVars, schedVars, cycleVars, claimVars, queryVars, discordVars, fsVars>>

\* canTransition(from, to) and getAllowedTransitions(from) are called with
\* the task's current status (any status: see InitSM) and any target;
\* neither touches the task.
SMQuery ==
    \E from \in {smTask.status}, to \in TaskStatus :
        /\ smQuery' = [asked |-> TRUE, from |-> from, to |-> to,
                       can |-> canTransition(from, to),
                       allowed |-> getAllowedTransitions(from)]
        /\ UNCHANGED <<smTask, smPrev, smArg, smResult, clock, genVars, schedVars,
                       cycleVars, claimVars, queryVars, discordVars, fsVars>>

NextSM ==
    \/ SMTransition
    \/ SMQuery

SpecSM == InitSM /\ [][NextSM]_vars

\* ------------------------------------------------------- generate call spec
InitGenSpec == SMIdle /\ clock = 0 /\ SchedIdle /\ OthersIdle /\ InitGen

\* generate touches no variable of the other components
GenFrame == UNCHANGED <<smVars, clock, schedVars, cycleVars, claimVars, queryVars, discordVars, fsVars>>

NextGen ==
    \/ GenEnter /\ GenFrame
    \/ GenRaceSettles /\ GenFrame
    \/ GenAttemptSucceeds /\ GenFrame
    \/ GenAttemptFails /\ GenFrame
    \/ GenAliasUnknown /\ GenFrame
    \/ GenCostThrows /\ GenFrame
    \/ GenAttemptHangs /\ GenFrame
    \/ GenLateCallSettles /\ GenFrame
    \/ GenNextModel /\ GenFrame
    \/ GenThrow /\ GenFrame

SpecGen == InitGenSpec /\ [][NextGen]_vars

\* ------------------------------------------------- LLMExecuteStage.run spec
\* Every alias of a validated execute configuration is a configured model, so
\* no attempt of this call meets an unknown alias.
NextExecute ==
    \/ ExecuteSelect /\ GenFrame
    \/ GenEnter /\ GenFrame
    \/ GenRaceSettles /\ GenFrame
    \/ GenAttemptSucceeds /\ GenFrame
    \/ GenAttemptFails /\ GenFrame
    \/ GenCostThrows /\ GenFrame
    \/ GenAttemptHangs /\ GenFrame
    \/ GenLateCallSettles /\ GenFrame
    \/ GenNextModel /\ GenFrame
    \/ GenThrow /\ GenFrame
    \/ ExecuteReturns /\ GenFrame
    \/ ExecuteRethrows /\ GenFrame

InitExecuteSpec == SMIdle /\ clock = 0 /\ SchedIdle /\ OthersIdle /\ InitExecute

SpecExecute == InitExecuteSpec /\ [][NextExecute]_vars

\* ------------------------------------------------ dependency scheduler spec
InitSchedSpec == SMIdle /\ clock = 0 /\ GenIdle /\ OthersIdle /\ InitSched

SpecSched == InitSchedSpec /\ [][NextSched]_vars

\* ------------------------------------------------------------ runCycle spec
InitCycleSpec ==
    SMIdle /\ clock = 0 /\ GenIdle /\ ClaimIdle /\ QueryIdle /\ DiscordIdle /\ FsIdle /\ InitCycle

SpecCycle == InitCycleSpec /\ [][NextCycle]_vars

\* ------------------------------------------------------------- claim spec
InitClaimSpec ==
    /\ SMIdle /\ clock = 0 /\ GenIdle /\ SchedIdle /\ CycleIdle /\ QueryIdle
    /\ DiscordIdle /\ FsIdle
    /\ InitClaim

SpecClaim == InitClaimSpec /\ [][NextClaim]_vars

\* ---------------------------------------------------- #findBestAgent spec
InitRouteSpec ==
    /\ SMIdle /\ clock = 0 /\ GenIdle /\ SchedIdle /\ CycleIdle /\ ClaimIdle
    /\ DiscordIdle /\ FsIdle
    /\ clarifyQuery = None
    /\ decomposeQuery = None
    /\ configQuery = None
    /\ onceQuery = None
    /\ InitRoute

SpecRoute == InitRouteSpec /\ [][NextRoute]_vars

\* ------------------------------------------ #requestClarification spec
InitRequestSpec ==
    /\ SMIdle /\ clock = 0 /\ GenIdle /\ SchedIdle /\ CycleIdle /\ ClaimIdle
    /\ DiscordIdle /\ FsIdle
    /\ routeQuery = None
    /\ decomposeQuery = None
    /\ configQuery = None
    /\ onceQuery = None
    /\ InitRequest

SpecRequest == InitRequestSpec /\ [][NextRequest]_vars

\* ------------------------------------------------ LLMDecomposeStage.run spec
InitDecomposeSpec ==
    /\ SMIdle /\ clock = 0 /\ GenIdle /\ SchedIdle /\ CycleIdle /\ ClaimIdle
    /\ DiscordIdle /\ FsIdle
    /\ routeQuery = None
    /\ clarifyQuery = None
    /\ configQuery = None
    /\ onceQuery = None
    /\ InitDecompose

SpecDecompose == InitDecomposeSpec /\ [][NextDecompose]_vars

\* ------------------------------------------ shouldAsk / shouldAskForTask spec
InitClarifySpec ==
    /\ SMIdle /\ clock = 0 /\ GenIdle /\ SchedIdle /\ CycleIdle /\ ClaimIdle
    /\ DiscordIdle /\ FsIdle
    /\ routeQuery = None
    /\ decomposeQuery = None
    /\ configQuery = None
    /\ onceQuery = None
    /\ InitClarify

SpecClarify == InitClarifySpec /\ [][NextClarify]_vars

\* =================================================================== claims

\* The allowed-transition table as the specification states it (section 4.1).
TableEdges ==
    {<<"pending", "claimed">>,
     <<"claimed", "in_progress">>, <<"claimed", "failed">>,
     <<"in_progress", "blocked">>, <<"in_progress", "completed">>,
     <<"in_progress", "failed">>,
     <<"blocked", "in_progress">>, <<"blocked", "failed">>,
     <<"failed", "pending">>}

SMCalled == smArg # None

\* C9: transition(task, to) on a pair (task.status, to) that is not an edge of
\* the table returns a failure Result carrying an error message and leaves
\* the task's status, claimedAt and completedAt as they were.
C9_InvalidTransitionRejected ==
    (SMCalled /\ <<smPrev.status, smArg>> \notin TableEdges) =>
        /\ smResult.success = FALSE
        /\ smResult.error # Undefined
        /\ smTask.status = smPrev.status
        /\ smTask.claimedAt = smPrev.claimedAt
        /\ smTask.completedAt = smPrev.completedAt

\* C9 witness: a claimed-and-failed task (both timestamps set) is asked to go
\* to completed, which the table does not allow, and the call has returned.
C9_Witness ==
    /\ SMCalled
    /\ smPrev.status = "failed"
    /\ smArg = "completed"
    /\ smPrev.claimedAt # Undefined
    /\ smPrev.completedAt # Undefined
    /\ smResult.success = FALSE

\* C10: for every edge (from, to) of the table, transition returns success,
\* sets the status to `to`, stamps claimedAt exactly when `to` is claimed and
\* completedAt exactly when `to` is completed or failed, and leaves both
\* timestamps unchanged for every other target.
C10_ValidTransitionApplied ==
    (SMCalled /\ <<smPrev.status, smArg>> \in TableEdges) =>
        /\ smResult.success = TRUE
        /\ smTask.status = smArg
        /\ smTask.claimedAt =
              IF smArg = "claimed" THEN Some(clock) ELSE smPrev.claimedAt
        /\ smTask.completedAt =
              IF smArg \in {"completed", "failed"}
              THEN Some(clock) ELSE smPrev.completedAt

\* C10 witness: an in_progress task claimed at an earlier clock reading has
\* just gone to failed, and completedAt carries the later reading.
C10_Witness ==
    /\ SMCalled
    /\ smPrev.status = "in_progress"
    /\ smArg = "failed"
    /\ smTask.status = "failed"
    /\ smTask.completedAt = Some(clock)
    /\ smTask.claimedAt # Undefined
    /\ smTask.claimedAt # smTask.completedAt

\* C11: canTransition(from, to) is true exactly for the nine edges of the
\* table and false for every other pair of statuses (self-loops and pairs
\* from completed included); getAllowedTransitions(from) lists, without
\* repetition, exactly the targets of the table's edges from `from`.
C11_CanTransitionTable ==
    smQuery.asked =>
        /\ smQuery.can = (<<smQuery.from, smQuery.to>> \in TableEdges)
        /\ Range(smQuery.allowed) =
              {t \in TaskStatus : <<smQuery.from, t>> \in TableEdges}
        /\ Len(smQuery.allowed) = Cardinality(Range(smQuery.allowed))
        /\ smQuery.from = smQuery.to => ~smQuery.can
        /\ smQuery.from = "completed" => (~smQuery.can /\ smQuery.allowed = <<>>)

\* C11 witness: an accepted pair has been queried (in_progress -> completed,
\* three targets listed).
C11_Witness ==
    /\ smQuery.asked
    /\ smQuery.from = "in_progress"
    /\ smQuery.to = "completed"
    /\ smQuery.can
    /\ Len(smQuery.allowed) = 3

\* ---- dependency scheduler: vocabulary of the claims

Deps(id) == Range(tasks[id].dependencies)

BatchIds == 1..Len(tasks)

RECURSIVE DepClosure(_, _)
DepClosure(S, k) ==
    IF k = 0 THEN S
    ELSE DepClosure(S \cup UNION {Deps(x) : x \in S \cap BatchIds}, k - 1)

\* every id the task depends on, directly or transitively
TransDeps(id) == DepClosure(Deps(id), Len(tasks))

\* the steps of the worker lookup / clarify / claim / execute path
DispatchOps == {"findBestAgent", "shouldAskForTask", "claim", "run"}

Dispatched(id) ==
    \E i \in DOMAIN schedLog : schedLog[i].op \in DispatchOps /\ schedLog[i].id = id

ReportedAt(i, id, status) ==
    /\ schedLog[i].op = "report"
    /\ schedLog[i].id = id
    /\ schedLog[i].status = status

BlockedReasons(id) ==
    {schedLog[i].msg[1] : i \in {j \in DOMAIN schedLog : ReportedAt(j, id, "blocked")}}

SchedReturned == schedPc = "returned"

\* C1: a task is handed to the worker lookup / clarify / claim / execute path
\* only after every id in its dependency list is in the completed set, and
\* after that dependency's completed report.
C1_DispatchAfterDependencies ==
    \A i \in DOMAIN schedLog :
        schedLog[i].op \in DispatchOps =>
            \A d \in Deps(schedLog[i].id) :
                /\ d \in completed
                /\ \E j \in 1..(i - 1) : ReportedAt(j, d, "completed")

\* C1 witness: B comes first in the batch and depends on A and on C behind
\* it; it was skipped in the first pass and executed in the second one.
C1_Witness ==
    /\ SchedReturned
    /\ Len(tasks) = 3
    /\ Deps(1) = {2, 3}
    /\ completed = {1, 2, 3}
    /\ passes = 2

\* the call is over: it returned its summary, or it was aborted by an error
\* that escaped the dispatch of a task (line 531, lines 550-565)
SchedEnded == schedPc \in {"returned", "thrown"}

\* C2: once the call is over, every task with a direct or transitive
\* dependency in failed or blocked is in blocked, is not in failed, and was
\* never dispatched.
C2_DependentsEndBlocked ==
    SchedEnded =>
        \A t \in BatchIds :
            (\E d \in TransDeps(t) : d \in failed \cup blocked) =>
                /\ t \in blocked
                /\ t \notin failed
                /\ ~Dispatched(t)

HasUnknownDependency(id) == \E d \in Deps(id) : d \notin BatchIds

\* C3: once the call is over, every task naming a dependency id outside the
\* batch is in blocked, was reported blocked with the unknown-dependency
\* reason, and was never dispatched.
C3_UnknownDependencyEndsBlocked ==
    SchedEnded =>
        \A t \in BatchIds :
            HasUnknownDependency(t) =>
                /\ t \in blocked
                /\ BlockedReasons(t) = {"Unknown dependencies"}
                /\ ~Dispatched(t)

OnCycle(id) == id \in TransDeps(id)

\* the tasks on a dependency cycle and those waiting on them
CycleOrWaiting ==
    {t \in BatchIds : OnCycle(t) \/ \E c \in TransDeps(t) \cap BatchIds : OnCycle(c)}

UnresolvableReports ==
    {i \in DOMAIN schedLog :
        /\ schedLog[i].op = "report"
        /\ schedLog[i].msg[1] = "Unresolvable dependencies"}

\* C4: when the batch has a dependency cycle, the call ends by returning,
\* and every task on the cycle or waiting on it is then in blocked, reported
\* blocked with the unresolvable-dependencies reason, and never dispatched.
C4_CycleEndsBlocked ==
    (SchedEnded /\ CycleOrWaiting # {}) =>
        /\ SchedReturned
        /\ \A t \in CycleOrWaiting :
              /\ t \in blocked
              /\ BlockedReasons(t) = {"Unresolvable dependencies"}
              /\ ~Dispatched(t)

\* C5: the pass loop begins at most n passes for a batch of n tasks, the
\* final no-progress pass included; whenever the loop condition is evaluated
\* again, each pass so far has removed a task from remaining.
C5_AtMostNPasses ==
    /\ passes <= Len(tasks)
    /\ schedPc = "while" => passes + Len(remaining) <= Len(tasks)

\* C5 witness: three tasks, three passes, the last of which made no
\* progress (a task waits in pass one, runs in pass two; a third lists itself).
C5_Witness ==
    /\ SchedReturned
    /\ Len(tasks) = 3
    /\ passes = 3
    /\ UnresolvableReports # {}
    /\ completed # {}

\* the task-level invocations that raised while this task was processed
RaisedFor(id) ==
    \E i \in DOMAIN schedLog :
        /\ schedLog[i].id = id
        /\ \/ schedLog[i].op = "shouldAskForTask" /\ schedLog[i].msg = <<"throws">>
           \/ schedLog[i].op = "run" /\ schedLog[i].msg = <<"rejected">>

\* C15: once the call is over, every task whose Execute or task-level
\* Clarify invocation raised is in failed and has a failed report, the call
\* has returned its summary, and every task of the batch is settled as
\* completed, failed or blocked.
C15_TaskFailureContained ==
    (SchedEnded /\ \E t \in BatchIds : RaisedFor(t)) =>
        /\ SchedReturned
        /\ \A t \in BatchIds :
              /\ RaisedFor(t) =>
                    /\ t \in failed
                    /\ tasks[t].status = "failed"
                    /\ \E i \in DOMAIN schedLog : ReportedAt(i, t, "failed")
              /\ t \in completed \cup failed \cup blocked

\* ---- the scheduler's bookkeeping and the dispatch path

Reported(id, status) == \E i \in DOMAIN schedLog : ReportedAt(i, id, status)

CallsOf(id, op) == {i \in DOMAIN schedLog : schedLog[i].op = op /\ schedLog[i].id = id}

ClaimGranted(id) == \E i \in CallsOf(id, "claim") : schedLog[i].msg = <<TRUE>>
ClaimRefused(id) == \E i \in CallsOf(id, "claim") : schedLog[i].msg = <<FALSE>>

\* the task is inside #executeTaskWithAgentMatching right now
InDispatch(id) ==
    /\ schedPc \in {"clarify", "claim", "execute", "thrown"}
    /\ entries # <<>>
    /\ Cur = id

\* C22: every transition applied to a task (to claimed, to in_progress, to
\* completed or failed) has a task-level report of that status, and every
\* task counted completed, failed or blocked has a task-level report of
\* that outcome.
C22_EveryTransitionReported ==
    \A t \in BatchIds :
        /\ tasks[t].claimedAt # Undefined => Reported(t, "claimed")
        /\ tasks[t].status \in {"in_progress", "completed", "failed"} =>
              Reported(t, "in_progress")
        /\ tasks[t].status \in {"completed", "failed"} => Reported(t, tasks[t].status)
        /\ t \in completed => Reported(t, "completed")
        /\ t \in failed => Reported(t, "failed")
        /\ t \in blocked => Reported(t, "blocked")

\* C27: the three sets are pairwise disjoint at every step; a task whose
\* dispatch returned an outcome is no longer in remaining and was handed to
\* the worker lookup once; on return every task is in exactly one of the
\* sets and the three counts sum to the size of the batch.
C27_SetsPartitionBatch ==
    /\ completed \cap failed = {}
    /\ completed \cap blocked = {}
    /\ failed \cap blocked = {}
    /\ completed \cup failed \cup blocked \subseteq BatchIds
    /\ \A t \in BatchIds :
          /\ Cardinality(CallsOf(t, "findBestAgent")) <= 1
          /\ (Dispatched(t) /\ ~InDispatch(t)) =>
                /\ t \notin Range(remaining)
                /\ t \in completed \cup failed \cup blocked
    /\ SchedReturned =>
          /\ completed \cup failed \cup blocked = BatchIds
          /\ Cardinality(completed) + Cardinality(failed) + Cardinality(blocked)
                = Len(tasks)

\* C27 witness: the call returned with one task in each set: the first
\* failed in Execute, the second was blocked by it, the third completed.
C27_Witness ==
    /\ SchedReturned
    /\ Len(tasks) = 3
    /\ failed = {1}
    /\ blocked = {2}
    /\ completed = {3}
    /\ Deps(2) = {1}

\* C28: a task whose claim was refused is counted blocked, not failed; it
\* is as Decompose made it (pending, no claim stamp), Execute was never
\* invoked for it, it has left remaining and the refusal did not end the
\* call: the loop goes on with the other tasks.  Execute is invoked for a
\* task only after a granted claim for it.
C28_ClaimConflictSkips ==
    /\ \A t \in BatchIds :
          (ClaimRefused(t) /\ ~InDispatch(t)) =>
              /\ t \in blocked
              /\ t \notin failed \cup completed
              /\ tasks[t] = NewTask(t, tasks[t].dependencies)
              /\ CallsOf(t, "run") = {}
              /\ t \notin Range(remaining)
              /\ schedLog[Len(schedLog)] = Call("claim", t, FALSE) =>
                    /\ schedPc \in {"for", "while", "returned"}
                    /\ schedPc = "returned" => remaining = <<>>
    /\ \A i \in DOMAIN schedLog :
          schedLog[i].op = "run" =>
              \E j \in 1..(i - 1) : schedLog[j] = Call("claim", schedLog[i].id, TRUE)

\* C28 witness: the first task's claim was refused; the second task was
\* then claimed and executed, and the call returned.
C28_Witness ==
    /\ SchedReturned
    /\ Len(tasks) = 2
    /\ ClaimRefused(1)
    /\ 1 \in blocked
    /\ ClaimGranted(2)
    /\ 2 \in completed
    /\ \E i \in CallsOf(1, "claim"), j \in CallsOf(2, "run") : i < j

\* a transition of the dispatch path was refused by the state machine: the
\* call was aborted after a granted claim, or a resolved Execute ended in a
\* failed report
TransitionRefused ==
    \/ /\ schedPc = "thrown"
       /\ schedLog[Len(schedLog)].op = "claim"
    \/ \E i \in DOMAIN schedLog :
          /\ schedLog[i].op = "run"
          /\ schedLog[i].msg = <<"resolved">>
          /\ Reported(schedLog[i].id, "failed")

\* C29: no transition of the dispatch path is ever refused; a task with a
\* granted claim that is being executed is in_progress, one whose Execute
\* resolved is completed, one whose Execute rejected is failed, and a task
\* with no granted claim is still pending.
C29_TransitionsAlwaysLegal ==
    /\ ~TransitionRefused
    /\ \A t \in BatchIds :
          /\ ~ClaimGranted(t) =>
                tasks[t].status = "pending" /\ tasks[t].claimedAt = Undefined
          /\ ClaimGranted(t) =>
                /\ tasks[t].claimedAt # Undefined
                /\ tasks[t].status =
                      IF \E i \in CallsOf(t, "run") : schedLog[i].msg = <<"resolved">>
                      THEN "completed"
                      ELSE IF \E i \in CallsOf(t, "run") : schedLog[i].msg = <<"rejected">>
                      THEN "failed"
                      ELSE "in_progress"

\* C29 witness: of two claimed tasks one went to completed and the other to
\* failed.
C29_Witness ==
    /\ SchedReturned
    /\ Len(tasks) = 2
    /\ ClaimGranted(1) /\ tasks[1].status = "completed"
    /\ ClaimGranted(2) /\ tasks[2].status = "failed"

\* ---- runCycle: vocabulary of the claims

GoalIdOf(k) == cycleGoals[k].id

\* #processGoal begins with the Parse call (line 352), so the events of the
\* k-th polled goal are those from the k-th Parse call up to the next one;
\* two polled goals may have the same id
GoalEventsOf(k) ==
    {i \in DOMAIN goalLog :
        Cardinality({j \in 1..i : goalLog[j].op = "parse"}) = k}

GoalReportsOf(k) ==
    {i \in GoalEventsOf(k) : goalLog[i].op = "report" /\ goalLog[i].id = GoalIdOf(k)}

\* #processGoal has been called for goal k and is over
GoalOver(k) == k < cycleIdx \/ (k = cycleIdx /\ cyclePc \in {"loop", "done", "rejected"})

\* the goal just processed, before the loop moves on
JustProcessed == cycleIdx >= 1 /\ cyclePc = "loop"

LastGoalEvent == goalLog[Len(goalLog)]

\* C12: when the scheduler has returned its summary for a goal, the
\* goal-level report that follows carries failed if the failed set is not
\* empty, otherwise blocked if the blocked set is not empty, otherwise
\* completed.
C12_GoalStatusDerived ==
    (JustProcessed /\ SchedReturned) =>
        /\ LastGoalEvent.op = "report"
        /\ LastGoalEvent.entity = "goal"
        /\ LastGoalEvent.id = GoalIdOf(cycleIdx)
        /\ LastGoalEvent.status =
              IF failed # {} THEN "failed"
              ELSE IF blocked # {} THEN "blocked"
              ELSE "completed"

\* C12 witness: one task failed and another was blocked; the goal is
\* reported failed.
C12_Witness ==
    /\ JustProcessed
    /\ SchedReturned
    /\ failed # {}
    /\ blocked # {}
    /\ LastGoalEvent.status = "failed"

\* C13: every polled goal whose processing is over has exactly one
\* goal-level report, a goal not yet processed or in process has none, and
\* when the cycle is done every polled goal has been processed.
C13_OneGoalReport ==
    /\ \A k \in DOMAIN cycleGoals :
          Cardinality(GoalReportsOf(k)) = IF GoalOver(k) THEN 1 ELSE 0
    /\ cyclePc = "done" => \A k \in DOMAIN cycleGoals : GoalOver(k)

\* C13 witness: a cycle of two goals that carry the same id is done; the
\* first stopped at a blocking clarification, the second at a failing stage.
C13_Witness ==
    /\ cyclePc = "done"
    /\ Len(cycleGoals) = 2
    /\ GoalIdOf(1) = GoalIdOf(2)
    /\ \E i \in GoalReportsOf(1) : goalLog[i].status = "blocked"
    /\ \E i \in GoalReportsOf(2) : goalLog[i].status = "failed"
    /\ \E i \in GoalEventsOf(2) : goalLog[i] = GoalCall("decompose", GoalIdOf(2), "throws")

\* every task of the current goal's batch was executed and Execute resolved
AllExecuted ==
    /\ tasks # <<>>
    /\ \A t \in BatchIds :
          \E i \in DOMAIN schedLog : schedLog[i] = Call("run", t, "resolved")

TaskReports(status) ==
    {i \in DOMAIN schedLog : schedLog[i].op = "report" /\ schedLog[i].status = status}

\* C14: when all n tasks of a goal executed successfully, there are exactly
\* n task-level completed reports, one per task, exactly one goal-level
\* report for the goal and it says completed, and no failed or blocked
\* report for the goal or its tasks.
C14_AllSucceedReports ==
    (JustProcessed /\ AllExecuted) =>
        /\ Cardinality(TaskReports("completed")) = Len(tasks)
        /\ \A t \in BatchIds :
              Cardinality({i \in TaskReports("completed") : schedLog[i].id = t}) = 1
        /\ TaskReports("failed") = {}
        /\ TaskReports("blocked") = {}
        /\ Cardinality(GoalReportsOf(cycleIdx)) = 1
        /\ \A i \in GoalReportsOf(cycleIdx) : goalLog[i].status = "completed"

\* C14 witness: a goal of two tasks, the first depending on the second,
\* both executed; the goal is reported completed.
C14_Witness ==
    /\ JustProcessed
    /\ AllExecuted
    /\ Len(tasks) = 2
    /\ Deps(1) = {2}
    /\ LastGoalEvent = GoalReport(GoalIdOf(cycleIdx), "completed", <<"All tasks completed">>)

\* the per-goal stages, by the call made and the name of the failing stage
GoalStages == {<<"parse", "parse">>, <<"shouldAsk", "clarify">>, <<"decompose", "decompose">>}

StageFailed(k, st) ==
    \E i \in GoalEventsOf(k) : goalLog[i] = GoalCall(st[1], GoalIdOf(k), "throws")

\* C16: when Parse, goal-level Clarify or Decompose failed for the goal just
\* processed, no task exists and no task-level call or report was made, the
\* failing call is followed by nothing but the goal's report, and that
\* report says failed with the text of the error.
C16_StageFailureStopsGoal ==
    \A st \in GoalStages :
        (JustProcessed /\ StageFailed(cycleIdx, st)) =>
            /\ tasks = <<>>
            /\ schedLog = <<>>
            /\ schedPc = "idle"
            /\ Len(goalLog) >= 2
            /\ goalLog[Len(goalLog) - 1] = GoalCall(st[1], GoalIdOf(cycleIdx), "throws")
            /\ LastGoalEvent =
                  GoalReport(GoalIdOf(cycleIdx), "failed", <<"Error", ": ", st[2]>>)

\* C16 witness: Decompose failed for the second goal of the cycle, after a
\* first goal that executed a task.
C16_Witness ==
    /\ JustProcessed
    /\ cycleIdx = 2
    /\ StageFailed(2, <<"decompose", "decompose">>)
    /\ \E i \in GoalReportsOf(1) : goalLog[i].status = "completed"
    /\ LastGoalEvent.status = "failed"

\* the texts of the errors that abort the scheduler: the task-level Clarify
\* rejection and the task-level report of a goal whose team is not found
SchedulerErrorTexts ==
    {StringOfError(ErrorOfStage("task"))} \cup
    {StringOfError(TeamNotFound(cycleGoals[k].teamId)) : k \in DOMAIN cycleGoals}

\* processing of goal k raised: a per-goal stage failed, or the scheduler
\* was aborted (its goal report carries the task-level error)
GoalRaised(k) ==
    \/ \E st \in GoalStages : StageFailed(k, st)
    \/ \E i \in GoalReportsOf(k) : goalLog[i].msg \in SchedulerErrorTexts

GoalEntered(k) ==
    \E i \in GoalEventsOf(k) : goalLog[i].op = "parse" /\ goalLog[i].id = GoalIdOf(k)

\* C17: runCycle never rejects; a goal whose processing raised is over and
\* the loop goes on; when the cycle is done every polled goal was processed.
C17_CycleSurvivesGoalFailure ==
    /\ cyclePc # "rejected"
    /\ \A k \in DOMAIN cycleGoals :
          /\ (GoalRaised(k) /\ k = cycleIdx) => cyclePc \in {"loop", "done"}
          /\ cyclePc = "done" => GoalEntered(k)

\* C17 witness: the first goal's scheduler was aborted by a task-level
\* error, the second goal was then processed to completion, and the cycle
\* is done.
C17_Witness ==
    /\ cyclePc = "done"
    /\ Len(cycleGoals) = 2
    /\ GoalRaised(1)
    /\ \E i \in GoalReportsOf(1) : goalLog[i].msg = <<"Error", ": ", "task">>
    /\ \E i \in GoalReportsOf(2) : goalLog[i].status = "completed"

\* goal-level Clarify answered "blocking" for goal k
ClarifyBlocked(k) ==
    \E i \in GoalEventsOf(k) : goalLog[i] = GoalCall("shouldAsk", GoalIdOf(k), "blocking")

GoalCallsOf(k, op) ==
    {i \in GoalEventsOf(k) : goalLog[i].op = op /\ goalLog[i].id = GoalIdOf(k)}

\* C21: when goal-level Clarify is blocking for a goal and processing of the
\* goal is over, requestClarification was called for it after the Clarify
\* answer, Decompose was not invoked for it, no task was created and no
\* task-level call was made, and the goal is not reported completed.
C21_BlockingClarificationStops ==
    \A k \in DOMAIN cycleGoals :
        (ClarifyBlocked(k) /\ GoalOver(k)) =>
            /\ \E i \in GoalCallsOf(k, "shouldAsk"), j \in GoalCallsOf(k, "requestClarification") :
                  i < j
            /\ GoalCallsOf(k, "decompose") = {}
            /\ \A i \in GoalReportsOf(k) : goalLog[i].status # "completed"
            /\ (k = cycleIdx /\ cyclePc = "loop") =>
                  /\ tasks = <<>>
                  /\ schedLog = <<>>
                  /\ schedPc = "idle"

\* C21 witness: the second goal of a cycle stopped at a blocking
\* clarification, after a first goal that ran its tasks.
C21_Witness ==
    /\ JustProcessed
    /\ cycleIdx = 2
    /\ ClarifyBlocked(2)
    /\ GoalCallsOf(1, "decompose") # {}
    /\ GoalCallsOf(2, "requestClarification") # {}
    /\ LastGoalEvent = GoalReport(GoalIdOf(2), "blocked", <<"Blocking clarification required">>)

\* ---- Decompose: the claims in terms of the parsed model output

DecomposeReturned == decomposeQuery.outcome = "returned"

\* the 0-based ordinals task i of the model output names
OrdinalsOf(i) ==
    IF decomposeQuery.parsed[i].dependencies = Undefined THEN <<>>
    ELSE decomposeQuery.parsed[i].dependencies[1]

\* some task of the model output names its own 0-based index
SelfReferential ==
    \E i \in DOMAIN decomposeQuery.parsed : (i - 1) \in Range(OrdinalsOf(i))

\* C23: a model output in which a task names its own index makes Decompose
\* throw, and no returned task has its own id among its dependencies.
C23_SelfDependencyRejected ==
    /\ (SelfReferential /\ decomposeQuery.outcome # "pending") =>
          decomposeQuery.outcome = "throws"
    /\ DecomposeReturned =>
          \A i \in DOMAIN decomposeQuery.tasks :
              decomposeQuery.tasks[i].id \notin Range(decomposeQuery.tasks[i].dependencies)

\* C24: a returned batch has between 1 and 10 tasks, all pending; the task
\* at 0-based position p has the id of number p + 1, so ids are pairwise
\* distinct; each dependency ordinal d is rewritten, in order, to the id of
\* number d + 1, and an absent dependency list becomes the empty list.
C24_DecomposeIdsAndDependencies ==
    DecomposeReturned =>
        LET out == decomposeQuery.tasks
        IN  /\ Len(out) >= 1
            /\ Len(out) <= 10
            /\ Len(out) = Len(decomposeQuery.parsed)
            /\ \A i \in DOMAIN out :
                  /\ out[i].status = "pending"
                  /\ out[i].id = TaskId((i - 1) + 1)
                  /\ Len(out[i].dependencies) = Len(OrdinalsOf(i))
                  /\ \A j \in DOMAIN OrdinalsOf(i) :
                        out[i].dependencies[j] = TaskId(OrdinalsOf(i)[j] + 1)
                  /\ decomposeQuery.parsed[i].dependencies = Undefined =>
                        out[i].dependencies = <<>>
            /\ \A i, j \in DOMAIN out : i # j => out[i].id # out[j].id

\* C24 witness: a batch of ten tasks is returned; the last names ordinal 0
\* and depends on the first task, the others have no dependency list.
C24_Witness ==
    /\ DecomposeReturned
    /\ Len(decomposeQuery.tasks) = 10
    /\ decomposeQuery.parsed[10].dependencies = Some(<<0>>)
    /\ decomposeQuery.parsed[1].dependencies = Undefined
    /\ decomposeQuery.tasks[10].dependencies = <<TaskId(1)>>
    /\ decomposeQuery.tasks[1].dependencies = <<>>

\* C18: for any id, at most one claim call ever returns true, and a call
\* made after one that returned true for the same id returns false.
C18_ClaimExclusive ==
    /\ \A i, j \in DOMAIN claimCalls :
          (/\ i # j
           /\ claimCalls[i].inputId = claimCalls[j].inputId
           /\ claimCalls[i].result = "true") => claimCalls[j].result # "true"
    /\ \A i \in DOMAIN claimCalls :
          (claimCalls[i].late /\ claimCalls[i].result # "running") =>
              claimCalls[i].result = "false"


\* ---- #findBestAgent: what the specification says, in terms of the roster

RouteTeamKnown == routeQuery.teamId \in DOMAIN routeQuery.cfg.teams
RouteRoster == routeQuery.cfg.teams[routeQuery.teamId].agents

\* the roster position holds a configured, active worker
ActiveAt(i) ==
    /\ RouteRoster[i] \in DOMAIN routeQuery.cfg.agents
    /\ routeQuery.cfg.agents[RouteRoster[i]].isActive

\* ... whose capabilities include every required capability
CapableAt(i) ==
    /\ ActiveAt(i)
    /\ Range(routeQuery.task.requiredCapabilities)
          \subseteq Range(routeQuery.cfg.agents[RouteRoster[i]].capabilities)

FirstActive == CHOOSE i \in DOMAIN RouteRoster :
                  ActiveAt(i) /\ \A j \in 1..(i - 1) : ~ActiveAt(j)
FirstCapable == CHOOSE i \in DOMAIN RouteRoster :
                  CapableAt(i) /\ \A j \in 1..(i - 1) : ~CapableAt(j)

\* C19: the result is the first active worker of the roster that has every
\* required capability; if there is none, the first active worker of the
\* roster; it is none exactly when the team is unknown or no worker of the
\* roster is active.
C19_FindBestAgent ==
    routeQuery.asked =>
        IF ~RouteTeamKnown THEN routeQuery.result = Undefined
        ELSE IF \E i \in DOMAIN RouteRoster : CapableAt(i)
             THEN routeQuery.result =
                     Some(routeQuery.cfg.agents[RouteRoster[FirstCapable]])
        ELSE IF \E i \in DOMAIN RouteRoster : ActiveAt(i)
             THEN routeQuery.result =
                     Some(routeQuery.cfg.agents[RouteRoster[FirstActive]])
        ELSE routeQuery.result = Undefined

\* C19 witness: the first worker of the roster is capable but inactive, the
\* second is active and lacks the capability; the second is returned.
C19_Witness ==
    /\ routeQuery.asked
    /\ RouteTeamKnown
    /\ RouteRoster = <<"a1", "a2">>
    /\ routeQuery.task.requiredCapabilities = <<"research">>
    /\ ~routeQuery.cfg.agents["a1"].isActive
    /\ routeQuery.cfg.agents["a1"].capabilities = <<"research">>
    /\ routeQuery.cfg.agents["a2"].capabilities = <<"writing">>
    /\ routeQuery.result = Some(routeQuery.cfg.agents["a2"])


\* ---- Clarify: the blocking rule as the specification states it

BlockingRule(isClearEnough, confidence, questions) ==
    \/ ~isClearEnough
    \/ confidence < 60
    \/ \E i \in DOMAIN questions : questions[i].blocking

ExpectedBlocking ==
    BlockingRule(clarifyQuery.validated.isClearEnough,
                 clarifyQuery.validated.confidence,
                 clarifyQuery.validated.questions)

\* C20: for every schema-valid output, the blocking decision of shouldAsk
\* and that of shouldAskForTask equal (not clear enough, or confidence below
\* 60, or some blocking question); in particular 59 / clear / no question
\* blocks, and 85 / clear / only non-blocking questions does not.
C20_BlockingRule ==
    /\ clarifyQuery.goal # Undefined =>
          clarifyQuery.goal[1].blocking = ExpectedBlocking
    /\ clarifyQuery.task # Undefined =>
          clarifyQuery.task[1].blocking = ExpectedBlocking
    /\ \A r \in Range(clarifyQuery.goal) \cup Range(clarifyQuery.task) :
          /\ (/\ clarifyQuery.validated.confidence = 59
              /\ clarifyQuery.validated.isClearEnough
              /\ clarifyQuery.validated.questions = <<>>) => r.blocking
          /\ (/\ clarifyQuery.validated.confidence = 85
              /\ clarifyQuery.validated.isClearEnough
              /\ \A i \in DOMAIN clarifyQuery.validated.questions :
                    ~clarifyQuery.validated.questions[i].blocking) => ~r.blocking

\* C20 witness: both levels were asked about 85 / clear / one non-blocking
\* question and neither blocks.
C20_Witness ==
    /\ clarifyQuery.goal # Undefined
    /\ clarifyQuery.task # Undefined
    /\ clarifyQuery.validated.confidence = 85
    /\ clarifyQuery.validated.isClearEnough
    /\ clarifyQuery.validated.questions = <<[blocking |-> FALSE]>>
    /\ ~clarifyQuery.goal[1].blocking
    /\ ~clarifyQuery.task[1].blocking


\* ---- generate: what the specification says, in terms of the call's inputs

\* "attempt up to maxRetries + 1 times", a negative or absent count being 0
CfgRetries ==
    IF genConfig.maxRetries = Undefined THEN 0
    ELSE IF genConfig.maxRetries[1] < 0 THEN 0
    ELSE genConfig.maxRetries[1]

\* "[primary-or-override, fallback-if-distinct]"
ClaimedFirst ==
    IF genOptions.modelAlias # Undefined THEN genOptions.modelAlias[1]
    ELSE IF genStage = "execute" THEN genConfig.default[1]
    ELSE genConfig.primary[1]

ClaimedCandidates ==
    IF genConfig.fallback # Undefined /\ genConfig.fallback[1] # ClaimedFirst
    THEN <<ClaimedFirst, genConfig.fallback[1]>>
    ELSE <<ClaimedFirst>>

GenLast == genLog[Len(genLog)]

\* C6: generate tries the candidates in order, each up to maxRetries+1 times:
\* the first attempt is attempt 0 on the first candidate; every later attempt
\* follows a failed one and is either the next attempt on the same candidate
\* or attempt 0 on the next candidate after maxRetries+1 failures on the
\* previous one; a successful attempt is the last attempt made and its value
\* is what generate returns.
C6_CandidatesInOrder ==
    genPc # "idle" =>
        /\ \A i \in 1..Len(genLog) :
              LET e == genLog[i]
              IN  /\ e.attempt \in 0..CfgRetries
                  /\ e.idx \in 1..Len(ClaimedCandidates)
                  /\ e.model = ClaimedCandidates[e.idx]
                  /\ i = 1 => (e.idx = 1 /\ e.attempt = 0)
                  /\ i > 1 =>
                        LET prev == genLog[i - 1]
                        IN  /\ ~prev.ok
                            /\ \/ e.idx = prev.idx /\ e.attempt = prev.attempt + 1
                               \/ /\ e.idx = prev.idx + 1
                                  /\ e.attempt = 0
                                  /\ prev.attempt = CfgRetries
        /\ (Len(genLog) > 0 /\ GenLast.ok) =>
              (genPc = "returned" /\ genOutcome = <<"returned", GenLast.value>>)
        /\ genPc = "returned" => (Len(genLog) > 0 /\ GenLast.ok)

\* C6 witness: maxRetries = 1, the primary failed twice, the fallback's first
\* attempt succeeded and its response is the result of the call.
C6_Witness ==
    /\ genPc = "returned"
    /\ genConfig.maxRetries = Some(1)
    /\ Len(genLog) = 3
    /\ genLog[1].idx = 1 /\ ~genLog[1].ok
    /\ genLog[2].idx = 1 /\ ~genLog[2].ok
    /\ genLog[3].idx = 2 /\ genLog[3].attempt = 0 /\ genLog[3].ok
    /\ genLog[3].model = genConfig.fallback[1]
    /\ genOutcome = <<"returned", ResponseOf(genConfig.fallback[1], 0)>>

\* C7: whenever generate throws, every attempt made has failed and exactly
\* maxRetries+1 attempts (negative counting as 0) were made on each candidate,
\* the candidates being the primary or override, then the fallback if it is
\* configured and differs from that first candidate.
C7_ThrowsOnlyWhenExhausted ==
    genPc = "thrown" =>
        /\ \A i \in 1..Len(genLog) :
              /\ ~genLog[i].ok
              /\ genLog[i].idx \in 1..Len(ClaimedCandidates)
              /\ genLog[i].model = ClaimedCandidates[genLog[i].idx]
        /\ \A k \in 1..Len(ClaimedCandidates) :
              Cardinality({i \in 1..Len(genLog) : genLog[i].idx = k}) = CfgRetries + 1

\* C7 witness: a negative maxRetries and two distinct candidates; the call
\* threw after one failed attempt on each.
C7_Witness ==
    /\ genPc = "thrown"
    /\ genConfig.maxRetries = Some(-1)
    /\ Len(ClaimedCandidates) = 2
    /\ Len(genLog) = 2
    /\ genLog[1].model # genLog[2].model

\* C8: when every attempt fails, the error thrown is the error of the last
\* attempt made, and it is never the placeholder error.
C8_LastErrorSurfaced ==
    genPc = "thrown" =>
        /\ Len(genLog) > 0
        /\ genOutcome = <<"thrown", GenLast.value>>
        /\ genOutcome[2] # PlaceholderError

\* C8 witness: the call threw after several failed attempts whose errors
\* differ (a provider error first, a timeout last); the timeout is thrown.
C8_Witness ==
    /\ genPc = "thrown"
    /\ Len(genLog) >= 3
    /\ genLog[1].value[2] = "provider"
    /\ GenLast.value[2] = "timeout"
    /\ genOutcome[2] = GenLast.value

\* ------------------------------------------------------------ DiscordAdapter
\* Calls made on one adapter object over its life.
MaxDiscordCalls == 3

DiscordOps == {"report", "notify", "requestClarification"}

\* Variant: the readiness check never throws.
ensureReadyNoThrow(ready) == "ok"

\* #ensureReady, lines 63-68
ensureReady(ready) == IF ~ready THEN "not initialized" ELSE "ok"

\* report / notify / requestClarification, lines 93-161: #ensureReady runs
\* first, outside any try; everything the client does afterwards (fetching the
\* channel, sending) is inside a try whose catch only logs, and a missing
\* adminUserId or a channel that is not text based returns early.
discordCall(op, ready, clientFails, adminKnown) ==
    IF ensureReady(ready) # "ok" THEN "not initialized"
    ELSE "resolved"

\* initialize(), lines 45-61: handlers are registered and login is started;
\* the promise stays pending
DiscordInitialize ==
    /\ discordPc \in {"constructed", "loginRejected", "destroyed"}
    /\ discordPc' = "initializing"
    /\ UNCHANGED <<isReady, discordLog>>

\* lines 47-51: the clientReady handler sets the flag and resolves.  The
\* handler stays registered when an 'error' event has rejected the promise.
DiscordClientReady ==
    /\ discordPc \in {"initializing", "errored"}
    /\ isReady' = TRUE
    /\ discordPc' = "ready"
    /\ UNCHANGED discordLog

\* line 58: login rejects; the promise is rejected and no ready event follows
DiscordLoginRejects ==
    /\ discordPc = "initializing"
    /\ discordPc' = "loginRejected"
    /\ UNCHANGED <<isReady, discordLog>>

\* lines 53-56: the client emits 'error' while connecting; the promise is
\* rejected, the flag is untouched
DiscordClientError ==
    /\ discordPc = "initializing"
    /\ discordPc' = "errored"
    /\ UNCHANGED <<isReady, discordLog>>

\* Where in the adapter's life a call is made: once initialize() has completed
\* and until destroy() completes, after a completed destroy(), or otherwise
\* (never initialized, or initialize() pending or failed).
PhaseOf(pc) ==
    IF pc \in {"ready", "destroying"} THEN "ready"
    ELSE IF pc = "destroyed" THEN "destroyed"
    ELSE "uninitialized"

\* lines 93-161: one call of report, notify or requestClarification
DiscordCall ==
    /\ Len(discordLog) < MaxDiscordCalls
    /\ \E op \in DiscordOps, clientFails \in BOOLEAN, adminKnown \in BOOLEAN :
        /\ (op # "requestClarification") => adminKnown
        /\ ~isReady => (~clientFails /\ adminKnown)   \* the client is not reached
        /\ discordLog' = Append(discordLog,
              [op |-> op, at |-> PhaseOf(discordPc), clientFails |-> clientFails,
               adminKnown |-> adminKnown,
               result |-> discordCall(op, isReady, clientFails, adminKnown)])
    /\ UNCHANGED <<isReady, discordPc>>

\* destroy(), line 164: the call waits for client.destroy(); the flag is not
\* touched yet
DiscordDestroyBegin ==
    /\ discordPc \in {"constructed", "loginRejected", "errored", "ready",
                      "destroyed"}
    /\ discordPc' = IF discordPc = "ready" THEN "destroying" ELSE "closing"
    /\ UNCHANGED <<isReady, discordLog>>

\* line 165: client.destroy() has resolved; the flag is cleared
DiscordDestroyDone ==
    /\ discordPc \in {"destroying", "closing"}
    /\ isReady' = FALSE
    /\ discordPc' = "destroyed"
    /\ UNCHANGED discordLog

DiscordFrame ==
    UNCHANGED <<smVars, clock, genVars, schedVars, cycleVars, claimVars, queryVars,
                fsVars>>

NextDiscord ==
    \/ DiscordInitialize /\ DiscordFrame
    \/ DiscordClientReady /\ DiscordFrame
    \/ DiscordLoginRejects /\ DiscordFrame
    \/ DiscordClientError /\ DiscordFrame
    \/ DiscordCall /\ DiscordFrame
    \/ DiscordDestroyBegin /\ DiscordFrame
    \/ DiscordDestroyDone /\ DiscordFrame

InitDiscordSpec ==
    /\ SMIdle /\ clock = 0 /\ GenIdle /\ SchedIdle /\ CycleIdle /\ ClaimIdle
    /\ QueryIdle
    /\ DiscordIdle /\ FsIdle

SpecDiscord == InitDiscordSpec /\ [][NextDiscord]_vars

\* ---- C25 ----
\* the adapter is ready from the moment initialize() has completed (the ready
\* event was handled) until destroy() has completed
AdapterReadyAt(phase) == phase = "ready"

\* C25: every call of report, notify or requestClarification made while the
\* adapter is not ready (before initialize() has completed, or after destroy())
\* fails with the 'not initialized' error, and no call made while it is ready
\* fails.
C25_ReadyGuardsCalls ==
    \A i \in 1..Len(discordLog) :
        IF AdapterReadyAt(discordLog[i].at)
        THEN discordLog[i].result = "resolved"
        ELSE discordLog[i].result = "not initialized"

\* C25 witness: a call before initialize() failed, a call while ready did not
\* fail although the client call inside it failed, and a call after destroy()
\* failed again.
C25_Witness ==
    /\ Len(discordLog) = 3
    /\ discordLog[1].at = "uninitialized" /\ discordLog[1].result = "not initialized"
    /\ discordLog[2].at = "ready" /\ discordLog[2].clientFails
    /\ discordLog[2].result = "resolved"
    /\ discordLog[3].at = "destroyed" /\ discordLog[3].result = "not initialized"
    /\ {discordLog[i].op : i \in 1..3} = DiscordOps

\* -------------------------------------------------------------- ConfigLoader
\* Names a configuration file may use.  "constructor" and "toString" are
\* ordinary JSON strings; they are also members every parsed object inherits.
ConfigAgentNames == {"a1", "a2", "constructor"}
ConfigTeamNames == {"t1", "t2", "toString"}
ObjectPrototypeKeys == {"constructor", "toString"}
EnvAlias == "${M}"
EnvValues == {Undefined, Some("m1")}

\* agents: none, a1 alone, or a1 and a2 (a2 on team t1); teams is what a1 lists
ConfigAgents ==
    {[k \in {} |-> {}]}
    \cup {[k \in {"a1"} |-> T] : T \in {{}, {"t1"}, {"t2"}, {"toString"}}}
    \cup {[k \in {"a1", "a2"} |-> IF k = "a1" THEN T ELSE {"t1"}] :
             T \in {{}, {"t1"}, {"t2"}, {"toString"}}}

\* teams: none, or t1 with a roster
ConfigTeams ==
    {[k \in {} |-> {}]}
    \cup {[k \in {"t1"} |-> R] :
             R \in {{}, {"a1"}, {"a2"}, {"a1", "a2"}, {"constructor"}}}

\* a model entry: its baseUrl ("" when absent) and whether it has an apiKey
\* or an apiKeyEnv
ModelEntry(baseUrl, keyed) == [baseUrl |-> baseUrl, keyed |-> keyed]

\* Object.entries(config.models) lists the entries in this order
ModelOrder == <<"m1", EnvAlias>>

\* models: none, m1, m1 without a baseUrl, m1 without an API key source, or
\* m1 and one named by ${M}
ConfigModels ==
    {[k \in {} |-> ModelEntry("", FALSE)],
     [k \in {"m1"} |-> ModelEntry("url1", TRUE)],
     [k \in {"m1"} |-> ModelEntry("", TRUE)],
     [k \in {"m1"} |-> ModelEntry("url1", FALSE)],
     [k \in {"m1", EnvAlias} |->
         IF k = "m1" THEN ModelEntry("url1", TRUE) ELSE ModelEntry("url2", TRUE)]}

ConfigPipelines ==
    {[parse     |-> [primary |-> p1, fallback |-> f1],
      decompose |-> [primary |-> p2, fallback |-> Undefined],
      clarify   |-> [primary |-> p3, fallback |-> Undefined],
      execute   |-> [default |-> d, fallback |-> f4, byType |-> b]] :
        p1 \in {"m1", EnvAlias}, f1 \in {Undefined, Some(EnvAlias), Some("")},
        p2 \in {"m1", EnvAlias}, p3 \in {"m1", EnvAlias},
        d \in {"m1", EnvAlias}, f4 \in {Undefined, Some(EnvAlias), Some("")},
        b \in {{}, {EnvAlias}}}

\* What JSON.parse may give for the file's text.
ParsedConfigs ==
    [agents : ConfigAgents, teams : ConfigTeams, models : ConfigModels,
     discord : {"absent", "enabledWithoutToken", "enabledWithoutChannel"},
     pipeline : ConfigPipelines]

\* The files load may be pointed at: no file, text that is not JSON, or JSON.
ConfigFiles ==
    {[kind |-> "missing"], [kind |-> "malformed"]}
    \cup {[kind |-> "json", parsed |-> c] : c \in ParsedConfigs}

\* !obj[key]: a property read finds the object's own entry or, failing that,
\* a member inherited from Object.prototype; either is truthy
hasTruthyProperty(obj, key) ==
    key \in DOMAIN obj \/ key \in ObjectPrototypeKeys

\* modelNames.includes(alias), with modelNames = Object.keys(conf.models)
includesModel(conf, alias) == alias \in DOMAIN conf.models

\* lines 77-87: each model in turn needs a baseUrl, then an API key source
RECURSIVE validateModels(_, _)
validateModels(conf, aliases) ==
    IF aliases = <<>> THEN "ok"
    ELSE IF Head(aliases) \notin DOMAIN conf.models
    THEN validateModels(conf, Tail(aliases))
    ELSE IF conf.models[Head(aliases)].baseUrl = ""
    THEN "is missing required baseUrl"
    ELSE IF ~conf.models[Head(aliases)].keyed
    THEN "must have either apiKey or apiKeyEnv"
    ELSE validateModels(conf, Tail(aliases))

\* lines 91-105: the core stages in the order of the loop; each stage's
\* primary is checked, then its fallback, before the next stage is looked at.
\* A fallback that is the empty string is falsy (line 100) and is not looked up
CoreStages == <<"parse", "decompose", "clarify">>

RECURSIVE validateStages(_, _)
validateStages(conf, stages) ==
    IF stages = <<>> THEN "ok"
    ELSE LET stageConfig == conf.pipeline[Head(stages)]
         IN  IF ~includesModel(conf, stageConfig.primary)
             THEN "references unknown model"
             ELSE IF /\ Truthy(stageConfig.fallback)
                     /\ ~includesModel(conf, stageConfig.fallback[1])
             THEN "references unknown fallback model"
             ELSE validateStages(conf, Tail(stages))

\* validate, lines 31-130: "ok" or the message of the error thrown
validate(conf) ==
    IF DOMAIN conf.agents = {}
    THEN "Config must have at least one agent defined"
    ELSE IF DOMAIN conf.teams = {}
    THEN "Config must have at least one team defined"
    ELSE IF \E t \in DOMAIN conf.teams : \E a \in conf.teams[t] :
                ~hasTruthyProperty(conf.agents, a)
    THEN "references unknown agent"
    ELSE IF \E a \in DOMAIN conf.agents : \E t \in conf.agents[a] :
                ~hasTruthyProperty(conf.teams, t)
    THEN "references unknown team"
    ELSE IF conf.discord = "enabledWithoutToken"
    THEN "Discord adapter enabled but botToken is missing"
    ELSE IF conf.discord = "enabledWithoutChannel"
    THEN "Discord adapter enabled but taskChannelId is missing"
    ELSE IF DOMAIN conf.models = {}
    THEN "Config must have at least one model defined"
    ELSE IF validateModels(conf, ModelOrder) # "ok"
    THEN validateModels(conf, ModelOrder)
    ELSE IF validateStages(conf, CoreStages) # "ok"
    THEN validateStages(conf, CoreStages)
    ELSE IF ~includesModel(conf, conf.pipeline.execute.default)
    THEN "execute references unknown default model"
    ELSE IF /\ Truthy(conf.pipeline.execute.fallback)
            /\ ~includesModel(conf, conf.pipeline.execute.fallback[1])
    THEN "execute references unknown fallback model"
    ELSE IF \E alias \in conf.pipeline.execute.byType :
                ~includesModel(conf, alias)
    THEN "execute.byType references unknown model"
    ELSE "ok"

\* lines 135-138: ${VAR} becomes process.env[VAR] or the empty string,
\* wherever it stands in the text
expandName(name, env) ==
    IF name = EnvAlias THEN (IF env = Undefined THEN "" ELSE env[1]) ELSE name

\* expandEnvVars, lines 132-143: the substitution is made in the JSON text, so
\* it reaches keys and values alike; of two keys that become equal JSON.parse
\* keeps the later one.  Agent and team names here hold no ${...}.
expandEnvVars(conf, env) ==
    LET keys == {expandName(k, env) : k \in DOMAIN conf.models}
        later(k) == IF EnvAlias \in DOMAIN conf.models
                       /\ expandName(EnvAlias, env) = k
                    THEN EnvAlias ELSE k
        stage(s) == [primary  |-> expandName(conf.pipeline[s].primary, env),
                     fallback |-> IF conf.pipeline[s].fallback = Undefined
                                  THEN Undefined
                                  ELSE Some(expandName(conf.pipeline[s].fallback[1], env))]
        execute == conf.pipeline.execute
    IN  [agents  |-> conf.agents,
         teams   |-> conf.teams,
         models  |-> [k \in keys |-> conf.models[later(k)]],
         discord |-> conf.discord,
         pipeline |->
            [parse     |-> stage("parse"),
             decompose |-> stage("decompose"),
             clarify   |-> stage("clarify"),
             execute   |->
                [default  |-> expandName(execute.default, env),
                 fallback |-> IF execute.fallback = Undefined THEN Undefined
                              ELSE Some(expandName(execute.fallback[1], env)),
                 byType   |-> {expandName(a, env) : a \in execute.byType}]]]

\* load, lines 7-29
load(file, env) ==
    IF file.kind = "missing" THEN [outcome |-> "throws", error |-> "Config file not found"]
    ELSE IF file.kind = "malformed" THEN [outcome |-> "throws", error |-> "SyntaxError"]
    ELSE IF validate(file.parsed) # "ok"
         THEN [outcome |-> "throws", error |-> validate(file.parsed)]
         ELSE [outcome |-> "returned", config |-> expandEnvVars(file.parsed, env)]

\* a file and an environment, load not yet called
InitConfig ==
    configQuery \in [file : ConfigFiles, env : EnvValues,
                     result : {[outcome |-> "pending"]}]

\* one call of ConfigLoader.load
ConfigLoad ==
    /\ configQuery.result.outcome = "pending"
    /\ configQuery' = [configQuery EXCEPT
                          !.result = load(configQuery.file, configQuery.env)]
    /\ UNCHANGED <<routeQuery, clarifyQuery, decomposeQuery, onceQuery>>

ConfigFrame ==
    UNCHANGED <<smVars, clock, genVars, schedVars, cycleVars, claimVars, discordVars, fsVars>>

NextConfig == ConfigLoad /\ ConfigFrame

InitConfigSpec ==
    /\ SMIdle /\ clock = 0 /\ GenIdle /\ SchedIdle /\ CycleIdle /\ ClaimIdle
    /\ DiscordIdle /\ FsIdle
    /\ routeQuery = None
    /\ clarifyQuery = None
    /\ decomposeQuery = None
    /\ onceQuery = None
    /\ InitConfig

SpecConfig == InitConfigSpec /\ [][NextConfig]_vars

\* ---- C26 ----
ConfigReturned == configQuery.result.outcome = "returned"

\* every reference of the configuration names something it defines
ConfigDefinesAll(conf) ==
    /\ DOMAIN conf.agents # {}
    /\ DOMAIN conf.teams # {}
    /\ DOMAIN conf.models # {}
    /\ \A t \in DOMAIN conf.teams : conf.teams[t] \subseteq DOMAIN conf.agents
    /\ \A a \in DOMAIN conf.agents : conf.agents[a] \subseteq DOMAIN conf.teams
    /\ \A s \in {"parse", "decompose", "clarify"} :
          /\ conf.pipeline[s].primary \in DOMAIN conf.models
          /\ conf.pipeline[s].fallback # Undefined =>
                conf.pipeline[s].fallback[1] \in DOMAIN conf.models
    /\ conf.pipeline.execute.default \in DOMAIN conf.models
    /\ conf.pipeline.execute.fallback # Undefined =>
          conf.pipeline.execute.fallback[1] \in DOMAIN conf.models
    /\ conf.pipeline.execute.byType \subseteq DOMAIN conf.models

\* C26: load returns a configuration only if it defines at least one agent,
\* one team and one model, every roster id is a defined agent, every team an
\* agent names is a defined team and every alias a stage names is a defined
\* model; otherwise it throws.
C26_LoadReturnsOnlyValid ==
    ConfigReturned =>
        /\ ConfigDefinesAll(configQuery.file.parsed)
        /\ ConfigDefinesAll(configQuery.result.config)

\* What the code does guarantee of the models a stage names: every primary,
\* the execute default, every byType alias and every fallback that is not
\* the empty string is a key of models.
C26_ModelReferencesDefined ==
    ConfigReturned =>
        LET conf == configQuery.result.config
        IN  /\ DOMAIN conf.models # {}
            /\ \A s \in {"parse", "decompose", "clarify"} :
                  /\ conf.pipeline[s].primary \in DOMAIN conf.models
                  /\ Truthy(conf.pipeline[s].fallback) =>
                        conf.pipeline[s].fallback[1] \in DOMAIN conf.models
            /\ conf.pipeline.execute.default \in DOMAIN conf.models
            /\ Truthy(conf.pipeline.execute.fallback) =>
                  conf.pipeline.execute.fallback[1] \in DOMAIN conf.models
            /\ conf.pipeline.execute.byType \subseteq DOMAIN conf.models

\* A file whose team and agent references are all in order, and that load
\* returns with a stage fallback it does not define.
C26_FallbackAlwaysDefined ==
    ConfigReturned =>
        LET conf == configQuery.result.config
        IN  \/ \E t \in DOMAIN conf.teams : ~(conf.teams[t] \subseteq DOMAIN conf.agents)
            \/ \E a \in DOMAIN conf.agents : ~(conf.agents[a] \subseteq DOMAIN conf.teams)
            \/ /\ conf.pipeline.parse.fallback # Undefined =>
                      conf.pipeline.parse.fallback[1] \in DOMAIN conf.models
               /\ conf.pipeline.execute.fallback # Undefined =>
                      conf.pipeline.execute.fallback[1] \in DOMAIN conf.models

\* ---- C30 ----
\* a stage timeout greater than 0 is configured for the call
TimeoutPositive == genConfig.timeoutMs # Undefined /\ genConfig.timeoutMs[1] > 0

\* attempt i of the log lost the race against the timer
TimerFiredFirst(i) == genLog[i].race # Undefined /\ genLog[i].race[1].timerFirst

\* attempt i of the log failed and the loop went on as after any failure:
\* the next attempt of the same candidate while retries remain, then the
\* first attempt of the next candidate; after the last one the call throws
HandledAsFailure(i) ==
    /\ ~genLog[i].ok
    /\ i < Len(genLog) =>
          IF genLog[i].attempt < maxRetries
          THEN /\ genLog[i + 1].idx = genLog[i].idx
               /\ genLog[i + 1].attempt = genLog[i].attempt + 1
          ELSE /\ genLog[i + 1].idx = genLog[i].idx + 1
               /\ genLog[i + 1].attempt = 0
    /\ i = Len(genLog) =>
          /\ genPc # "returned"
          /\ lastError = genLog[i].value
          /\ genPc = "thrown" => genOutcome = <<"thrown", genLog[i].value>>

\* C30: with a stage timeout greater than 0, an attempt whose timer fires
\* before the provider call settles fails with a timeout error and is handled
\* like any other failed attempt (next attempt, then next candidate); with no
\* positive timeout no attempt fails with a timeout error, an attempt ends only
\* when the provider call ends, and only then can generate wait without limit.
C30_TimeoutIsRetryableFailure ==
    /\ \A i \in 1..Len(genLog) :
          /\ (TimeoutPositive /\ TimerFiredFirst(i)) =>
                /\ ~genLog[i].ok
                /\ genLog[i].value[2] = "timeout"
                /\ HandledAsFailure(i)
          /\ ~TimeoutPositive =>
                /\ ~TimerFiredFirst(i)
                /\ genLog[i].ok \/ genLog[i].value[2] # "timeout"
                /\ genLog[i].race # Undefined =>
                      /\ genLog[i].race[1].call # "never"
                      /\ genLog[i].ok => genLog[i].race[1].call = "resolves"
    /\ genPc = "waiting" => ~TimeoutPositive

\* C30 witness: a positive timeout is configured; the first attempt timed out
\* on a call that has not settled since, the same candidate was tried again, and after
\* a later timeout the next candidate answered.
C30_Witness ==
    /\ TimeoutPositive
    /\ genPc = "returned"
    /\ Len(genLog) >= 3
    /\ TimerFiredFirst(1) /\ genLog[1].late = "inflight"
    /\ genLog[1].value[2] = "timeout"
    /\ genLog[2].idx = 1 /\ genLog[2].attempt = 1
    /\ genLog[Len(genLog)].idx = 2 /\ genLog[Len(genLog)].ok
    /\ TimerFiredFirst(Len(genLog) - 1)

\* ---- C39 ----
\* a task as Decompose creates it: pending, no timestamps
InitSMPending == InitSM /\ smTask = NewTask(1, <<>>)

SpecSMPending == InitSMPending /\ [][NextSM]_vars

\* C39: for a task that starts pending with no timestamps, after any sequence
\* of transition calls completedAt is set if and only if the task's status is
\* completed or failed.
C39_CompletedAtIffTerminal ==
    (smTask.completedAt # Undefined) <=> (smTask.status \in {"completed", "failed"})

\* One direction of it: a completed or failed task always carries completedAt.
C39_TerminalHasCompletedAt ==
    smTask.status \in {"completed", "failed"} => smTask.completedAt # Undefined

\* ---- C40 ----
\* C40: a task counted blocked (unknown, blocked or unresolvable dependency,
\* no worker, blocking task-level clarification, refused claim) never had a
\* granted claim and is left as Decompose made it: status pending, claimedAt,
\* completedAt and result unset.
C40_BlockedTasksUntouched ==
    \A id \in blocked :
        /\ ~ClaimGranted(id)
        /\ tasks[id].status = "pending"
        /\ tasks[id].claimedAt = Undefined
        /\ tasks[id].completedAt = Undefined
        /\ tasks[id].result = Undefined

\* C40 witness: the call returned; task 1 was refused by the adapter, task 2
\* depends on it and was blocked for that, task 3 ran to completion; tasks 1
\* and 2 are still pending.
C40_Witness ==
    /\ SchedReturned
    /\ Len(tasks) = 3
    /\ ClaimRefused(1)
    /\ Deps(2) = {1}
    /\ blocked = {1, 2}
    /\ completed = {3}
    /\ tasks[1].status = "pending" /\ tasks[2].status = "pending"
    /\ tasks[3].status = "completed"

\* ---- C37 ----
ReportsOf(id, statuses) ==
    {i \in DOMAIN schedLog :
        schedLog[i].op = "report" /\ schedLog[i].id = id /\ schedLog[i].status \in statuses}

\* the task-level reports of the goal being processed, task by task
TaskReportsOrdered ==
    \A id \in BatchIds :
        LET started == ReportsOf(id, {"in_progress"})
            ended   == ReportsOf(id, {"completed", "failed"})
        IN  /\ Cardinality(started) = (IF ClaimGranted(id) THEN 1 ELSE 0)
            /\ Cardinality(ended) <= 1
            /\ ended # {} => ClaimGranted(id)
            /\ \A i \in started, j \in ended : i < j
            /\ (ClaimGranted(id) /\ ~InDispatch(id)) => Cardinality(ended) = 1

\* the goal being processed has its goal-level report
GoalReported == cycleIdx >= 1 /\ GoalReportsOf(cycleIdx) # {}

\* C37: for every claimed task exactly one in_progress report is issued and it
\* precedes the task's single completed-or-failed report; the goal-level
\* report is issued when the scheduler is over, and no task-level report (no
\* task-level call at all) of that goal follows it.
C37_ReportsOrdered ==
    /\ [](TaskReportsOrdered)
    /\ [](GoalReported => schedPc \in {"idle", "returned", "thrown"})
    /\ [][(GoalReported /\ cycleIdx' = cycleIdx) => schedLog' = schedLog]_vars

\* C37 witness: a goal whose first task completed and whose second task
\* failed has been reported failed; each task has its in_progress report
\* before its final one.
C37_Witness ==
    /\ JustProcessed
    /\ SchedReturned
    /\ GoalReported
    /\ Len(tasks) = 2
    /\ completed = {1} /\ failed = {2}
    /\ \A id \in {1, 2} : Cardinality(ReportsOf(id, {"in_progress"})) = 1
    /\ goalLog[Len(goalLog)].status = "failed"

\* ---- C33 ----
\* C33: the worker #findBestAgent returns, when it returns one, is active and
\* its capabilities include every capability the task requires.
C33_SelectedIsEligible ==
    (routeQuery.asked /\ routeQuery.result # Undefined) =>
        /\ routeQuery.result[1].isActive
        /\ Range(routeQuery.task.requiredCapabilities)
              \subseteq Range(routeQuery.result[1].capabilities)

\* The half of it about activity alone.
C33_SelectedIsActive ==
    (routeQuery.asked /\ routeQuery.result # Undefined) =>
        routeQuery.result[1].isActive

\* ---- C36 ----
MessageSent == clarifyQuery.sent # Undefined
MessageLines == clarifyQuery.sent[1]

\* C36: the message lists every question, in order, each with its urgency and
\* with a BLOCKING / Non-blocking label that matches its blocking flag.
C36_MessageListsQuestions ==
    MessageSent =>
        /\ Len(MessageLines) = Len(clarifyQuery.questions)
        /\ \A i \in DOMAIN clarifyQuery.questions :
              LET q == clarifyQuery.questions[i]
                  pieces == Range(MessageLines[i])
              IN  /\ q.question \in pieces
                  /\ (IF q.blocking THEN "BLOCKING" ELSE "Non-blocking") \in pieces
                  /\ (IF q.blocking THEN "Non-blocking" ELSE "BLOCKING") \notin pieces
                  /\ q.urgency \in pieces

\* The same without the urgency: every question, in order, with its label.
C36_MessageListsLabels ==
    MessageSent =>
        /\ Len(MessageLines) = Len(clarifyQuery.questions)
        /\ \A i \in DOMAIN clarifyQuery.questions :
              LET q == clarifyQuery.questions[i]
                  pieces == Range(MessageLines[i])
              IN  /\ q.question \in pieces
                  /\ (IF q.blocking THEN "BLOCKING" ELSE "Non-blocking") \in pieces
                  /\ (IF q.blocking THEN "Non-blocking" ELSE "BLOCKING") \notin pieces

\* ---- C35 ----
\* the alias configured for the task's type, if there is one
TypeAlias ==
    IF genConfig.byType # Undefined /\ genOptions.type \in DOMAIN genConfig.byType[1]
    THEN Some(genConfig.byType[1][genOptions.type])
    ELSE Undefined

ExpectedPrimary == IF TypeAlias # Undefined THEN TypeAlias[1] ELSE genConfig.default[1]

CandidatesResolved == genPc \notin {"run", "called"}

\* C35: for the execute stage the first candidate is the alias byType gives
\* the task's type when there is one, otherwise the configured default; the
\* stage's fallback is the second and last candidate exactly when it is
\* configured and differs from that primary; the first attempt goes to the
\* primary.
C35_ExecuteCandidates ==
    CandidatesResolved =>
        /\ modelAliases[1] = ExpectedPrimary
        /\ IF genConfig.fallback # Undefined /\ genConfig.fallback[1] # ExpectedPrimary
           THEN modelAliases = <<ExpectedPrimary, genConfig.fallback[1]>>
           ELSE modelAliases = <<ExpectedPrimary>>
        /\ genLog # <<>> => genLog[1].model = ExpectedPrimary

\* what the code takes as primary: an alias that is the empty string counts
\* as absent, for the type and for the default alike, and with neither the
\* first configured model is taken
PrimaryTaken ==
    IF Truthy(TypeAlias) THEN TypeAlias[1]
    ELSE IF Truthy(genConfig.default) THEN genConfig.default[1]
    ELSE ModelKeys[1]

\* The candidates as the code builds them, for every execute configuration.
C35_CandidatesFromNonEmptyAliases ==
    CandidatesResolved =>
        /\ modelAliases[1] = PrimaryTaken
        /\ IF genConfig.fallback # Undefined /\ genConfig.fallback[1] # PrimaryTaken
           THEN modelAliases = <<PrimaryTaken, genConfig.fallback[1]>>
           ELSE modelAliases = <<PrimaryTaken>>
        /\ genLog # <<>> => genLog[1].model = PrimaryTaken

\* ---- C31, C38 ----
\* attempt i of the log made a provider call that returned a result before
\* any timer fired
ResolvedInTime(i) ==
    /\ genLog[i].race # Undefined
    /\ withTimeout(genLog[i].race[1].call, genConfig.timeoutMs,
                   genLog[i].race[1].timerFirst) = "resolves"

\* C31: once the provider call of an attempt has returned a result within its
\* timeout, the attempt is a success whatever happens while its cost is
\* computed and logged: it is the last attempt made (no retry, no fallback)
\* and its result is what generate returns.
C31_CostFailureNeverFailsCall ==
    \A i \in DOMAIN genLog :
        ResolvedInTime(i) =>
            /\ genLog[i].ok
            /\ i = Len(genLog)
            /\ genPc = "returned"
            /\ genOutcome = <<"returned", ResponseOf(genLog[i].model, genLog[i].attempt)>>

\* the part of C31 the code keeps: an attempt whose call returned in time fails
\* only on a model without pricing, and then with the TypeError of the cost
\* computation
C31_OnlyUnpricedModelsFail ==
    \A i \in DOMAIN genLog :
        (ResolvedInTime(i) /\ ~genLog[i].ok) =>
            /\ genLog[i].model \notin genConfig.priced
            /\ genLog[i].value[2] = "TypeError"

\* attempt i of the log lost the race and left its call running
LateCall(i) == genLog[i].late \in {"inflight", "settled"}

ReturnedFromTimelyAttempt ==
    /\ genPc = "returned" =>
          /\ GenLast.ok
          /\ ResolvedInTime(Len(genLog))
          /\ ~TimerFiredFirst(Len(genLog))
          /\ genOutcome = <<"returned", GenLast.value>>
    /\ \A i \in DOMAIN genLog :
          LateCall(i) =>
              /\ TimerFiredFirst(i)
              /\ ~genLog[i].ok
              /\ genLog[i].value[2] = "timeout"
              /\ genPc = "returned" => i < Len(genLog)

\* a step in which a call that lost its race completes: the call of the
\* attempt generate is about to resume from, or that of an earlier attempt
LateCallSettlesNow ==
    \/ /\ genRace # Undefined
       /\ genRace[1].late = "inflight"
       /\ genRace' # Undefined
       /\ genRace'[1].late = "settled"
    \/ \E i \in DOMAIN genLog :
          /\ genLog[i].late = "inflight"
          /\ Len(genLog') = Len(genLog)
          /\ genLog'[i].late = "settled"

\* the promise generate awaits, if any, holds what it held
AwaitedPromiseKept ==
    genRace # Undefined =>
        /\ genRace' # Undefined
        /\ genRace'[1].state = genRace[1].state

\* C38: what generate returns is the value of an attempt whose call settled
\* before that attempt's timer fired; a call that loses the race may still be
\* running during later attempts, and when it completes it neither supplies
\* the result nor ends or alters the attempt in progress: the promise that
\* attempt awaits keeps the settlement it has.
C38_LateCallNeverSupplies ==
    /\ [](ReturnedFromTimelyAttempt)
    /\ [][LateCallSettlesNow =>
             /\ UNCHANGED <<genPc, genOutcome, attempt, genModelIdx, lastError>>
             /\ AwaitedPromiseKept]_vars

\* C38 witness: the first attempt timed out and its call completed later, a
\* second timed-out call is still running, and generate has returned the
\* answer of a later attempt.
C38_Witness ==
    /\ genPc = "returned"
    /\ Len(genLog) >= 3
    /\ genLog[1].late = "settled"
    /\ genLog[1].value[2] = "timeout"
    /\ \E i \in 2..(Len(genLog) - 1) : genLog[i].late = "inflight"
    /\ GenLast.ok /\ ~TimerFiredFirst(Len(genLog))
    /\ genOutcome = <<"returned", GenLast.value>>

\* ------------------------------------ #generateOnce with options.schema
\* (src/src/llm/client.ts lines 20-31 and 172-208)
\* A JSON value is a record: kind says what it is; inner holds the items of
\* an array, or the entries [key, value] of an object in insertion order.  A
\* key is the sequence of its characters.
MaxFields == 2

LowerCase == {"a", "b"}

\* c.toUpperCase() for the letters in use
toUpperCase(c) == IF c = "a" THEN "A" ELSE IF c = "b" THEN "B" ELSE c

\* key.replace(/_([a-z])/g, (_, c) => c.toUpperCase()), line 25: scanning
\* from the left, an underscore followed by a lower-case letter is replaced,
\* together with that letter, by the letter in upper case
RECURSIVE camelCaseKey(_)
camelCaseKey(key) ==
    IF key = <<>> THEN <<>>
    ELSE IF key[1] = "_" /\ Len(key) >= 2 /\ key[2] \in LowerCase
         THEN <<toUpperCase(key[2])>> \o camelCaseKey(SubSeq(key, 3, Len(key)))
         ELSE <<key[1]>> \o camelCaseKey(Tail(key))

\* result[camel] = value, line 26: a key already present keeps its place and
\* takes the new value
setProperty(entries_, key, value) ==
    IF \E i \in DOMAIN entries_ : entries_[i].key = key
    THEN [i \in DOMAIN entries_ |->
             IF entries_[i].key = key THEN [key |-> key, value |-> value]
             ELSE entries_[i]]
    ELSE Append(entries_, [key |-> key, value |-> value])

\* camelCaseKeys, lines 20-31
RECURSIVE camelCaseKeys(_)
RECURSIVE camelCaseEntries(_, _)
camelCaseKeys(obj) ==
    IF obj.kind = "array"
    THEN [kind |-> "array",
          inner |-> [i \in DOMAIN obj.inner |-> camelCaseKeys(obj.inner[i])]]
    ELSE IF obj.kind = "object"
    THEN [kind |-> "object", inner |-> camelCaseEntries(obj.inner, <<>>)]
    ELSE obj

\* the for loop of lines 24-27 over Object.entries(obj)
camelCaseEntries(todo, result) ==
    IF todo = <<>> THEN result
    ELSE camelCaseEntries(Tail(todo),
             setProperty(result, camelCaseKey(todo[1].key),
                         camelCaseKeys(todo[1].value)))

\* ---- the values a provider's text may hold
RawKeys == {<<"a", "_", "b">>, <<"a", "B">>, <<"a", "_", "B">>, <<"b">>}

Leaves == {[kind |-> k, inner |-> <<>>] : k \in {"string", "number"}}

NullValue == [kind |-> "null", inner |-> <<>>]

InnerObjects ==
    {[kind |-> "object", inner |-> <<[key |-> k, value |-> v]>>] :
        k \in RawKeys, v \in Leaves}

Arrays == {[kind |-> "array", inner |-> <<o>>] : o \in InnerObjects}

FieldValues == Leaves \cup InnerObjects \cup Arrays

\* objects as JSON.parse builds them: no key twice
Objects ==
    {[kind |-> "object", inner |-> s] :
        s \in {t \in UNION {[1..n -> [key : RawKeys, value : FieldValues]] :
                               n \in 0..MaxFields} :
                  \A i, j \in DOMAIN t : i # j => t[i].key # t[j].key}}

RawValues == Objects \cup Leaves \cup Arrays

\* ---- options.schema, as the stages pass it: an object with a required
\* string aB and an optional array b of objects that each hold a string aB
KeyAB == <<"a", "B">>

KeyB == <<"b">>

FieldOf(obj, key) ==
    LET I == {i \in DOMAIN obj.inner : obj.inner[i].key = key}
    IN  IF I = {} THEN Undefined ELSE Some(obj.inner[CHOOSE i \in I : TRUE].value)

HasString(obj, key) ==
    /\ obj.kind = "object"
    /\ FieldOf(obj, key) # Undefined
    /\ FieldOf(obj, key)[1].kind = "string"

SchemaOk(value) ==
    /\ HasString(value, KeyAB)
    /\ FieldOf(value, KeyB) # Undefined =>
          /\ FieldOf(value, KeyB)[1].kind = "array"
          /\ \A i \in DOMAIN FieldOf(value, KeyB)[1].inner :
                HasString(FieldOf(value, KeyB)[1].inner[i], KeyAB)

\* the object a successful validation yields: the keys of the schema, in the
\* order of the schema, with the values the input has for them; unknown keys
\* are dropped
OnlyKeys(obj, keys) ==
    LET present == SelectSeq(keys, LAMBDA k : FieldOf(obj, k) # Undefined)
    IN  [kind |-> "object",
         inner |-> [i \in DOMAIN present |->
                       [key |-> present[i], value |-> FieldOf(obj, present[i])[1]]]]

SchemaParse(value) ==
    LET top == OnlyKeys(value, <<KeyAB, KeyB>>)
    IN  [kind |-> "object",
         inner |-> [i \in DOMAIN top.inner |->
                       IF top.inner[i].key = KeyB
                       THEN [key |-> KeyB,
                             value |-> [kind |-> "array",
                                        inner |-> [j \in DOMAIN top.inner[i].value.inner |->
                                                      OnlyKeys(top.inner[i].value.inner[j], <<KeyAB>>)]]]
                       ELSE top.inner[i]]]

\* ---- what the provider does with one request
\* text: the response text, which either parses as JSON to value or does not;
\* apiError: the request itself fails; noText: no text came back
ProviderReplies ==
    {[kind |-> "text", parses |-> TRUE, value |-> v] : v \in RawValues}
    \cup {[kind |-> k, parses |-> FALSE, value |-> NullValue] :
             k \in {"text", "apiError", "noText"}}

OnceReturned(value) == [outcome |-> "returned", object |-> value, error |-> "none", text |-> FALSE]

OnceThrown(error, withText) == [outcome |-> "thrown", object |-> NullValue, error |-> error, text |-> withText]

\* generateObject, lines 174-178: the object when the text parses and
\* satisfies the schema; NoObjectGeneratedError carrying the text when it does
\* not; NoObjectGeneratedError without text, or the provider's own error
generateObject(reply) ==
    IF reply.kind = "apiError" THEN OnceThrown("APICallError", FALSE)
    ELSE IF reply.kind = "noText" THEN OnceThrown("NoObjectGeneratedError", FALSE)
    ELSE IF reply.parses /\ SchemaOk(reply.value) THEN OnceReturned(SchemaParse(reply.value))
    ELSE OnceThrown("NoObjectGeneratedError", TRUE)

\* runGeneration with a schema, lines 172-207
runGeneration(reply) ==
    LET objResult == generateObject(reply)
    IN  IF objResult.outcome = "returned" THEN objResult
        ELSE IF objResult.error = "NoObjectGeneratedError" /\ objResult.text
        THEN IF ~reply.parses
             THEN OnceThrown("SyntaxError", FALSE)         \* JSON.parse, line 195
             ELSE OnceReturned(camelCaseKeys(reply.value)) \* lines 196-204
        ELSE objResult                                      \* line 206

OncePending == [outcome |-> "pending", object |-> NullValue, error |-> "none", text |-> FALSE]

InitOnce ==
    onceQuery \in {[reply |-> r, result |-> OncePending] : r \in ProviderReplies}

OnceRun ==
    /\ onceQuery.result.outcome = "pending"
    /\ onceQuery' = [onceQuery EXCEPT !.result = runGeneration(onceQuery.reply)]
    /\ UNCHANGED <<routeQuery, clarifyQuery, decomposeQuery, configQuery>>

OnceFrame ==
    UNCHANGED <<smVars, clock, genVars, schedVars, cycleVars, claimVars, discordVars, fsVars>>

NextOnce == OnceRun /\ OnceFrame

InitOnceSpec ==
    /\ SMIdle /\ clock = 0 /\ GenIdle /\ SchedIdle /\ CycleIdle /\ ClaimIdle
    /\ DiscordIdle /\ FsIdle
    /\ routeQuery = None
    /\ clarifyQuery = None
    /\ decomposeQuery = None
    /\ configQuery = None
    /\ InitOnce

SpecOnce == InitOnceSpec /\ [][NextOnce]_vars

\* ---- C32 ----
OnceDone == onceQuery.result.outcome # "pending"

\* the provider raised a validation failure that carries the raw text
ValidationFailedWithText ==
    /\ generateObject(onceQuery.reply).outcome = "thrown"
    /\ generateObject(onceQuery.reply).error = "NoObjectGeneratedError"
    /\ generateObject(onceQuery.reply).text

\* the raw text parses and its key-normalized form satisfies the schema
NormalizationSucceeds ==
    /\ onceQuery.reply.parses
    /\ SchemaOk(camelCaseKeys(onceQuery.reply.value))

\* C32: after a validation failure that carries raw text the attempt
\* normalizes the key casing once and revalidates: it returns only output that
\* satisfies the schema, it returns when the normalized output does, and when
\* normalization fails (the raw text does not parse, or the normalized output
\* still violates the schema) it throws the provider's original validation
\* error.
C32_NormalizeRevalidateOrOriginalError ==
    (OnceDone /\ ValidationFailedWithText) =>
        /\ onceQuery.result.outcome = "returned" => SchemaOk(onceQuery.result.object)
        /\ NormalizationSucceeds => onceQuery.result.outcome = "returned"
        /\ ~NormalizationSucceeds =>
              /\ onceQuery.result.outcome = "thrown"
              /\ onceQuery.result.error = "NoObjectGeneratedError"

\* what the code does instead: raw text that parses is returned key-normalized
\* whether or not it satisfies the schema, raw text that does not parse
\* surfaces JSON.parse's SyntaxError, and an error of any other kind is
\* rethrown as it is
C32_NormalizedReturnedUnchecked ==
    OnceDone =>
        IF ValidationFailedWithText
        THEN IF onceQuery.reply.parses
             THEN /\ onceQuery.result.outcome = "returned"
                  /\ onceQuery.result.object = camelCaseKeys(onceQuery.reply.value)
                  /\ camelCaseKeys(onceQuery.result.object) = onceQuery.result.object
             ELSE /\ onceQuery.result.outcome = "thrown"
                  /\ onceQuery.result.error = "SyntaxError"
        ELSE onceQuery.result = generateObject(onceQuery.reply)

\* a recovered reply: snake_case text returned in the schema's casing
C32_Recovered ==
    /\ OnceDone /\ ValidationFailedWithText /\ NormalizationSucceeds
    /\ onceQuery.result.outcome = "returned"
    /\ onceQuery.result.object # onceQuery.reply.value

\* -------------------------------------------- FileSystemAdapter goal files
\* (src/unnamed/part_003; runCycle and #processGoal of src/unnamed/part_004)
\* A goal file is [hasFm, fm, body]: hasFm says whether the content opens with
\* a "---" frontmatter block, fm and body are their lines.  A line is
\* [key, value, exact]: key is the trimmed text before the first colon ("" for
\* a line without one), value the trimmed text after it, and exact says that
\* the line starts with the key directly followed by the colon.
MaxPolls == 2

\* largest number of goal files on disk
MaxFiles == 2

\* Object.keys(this.#config.teams)
FsTeams == <<"t1", "t2">>

\* <name>.goal.md, in the order readdir lists them
FsNames == <<"g1", "x">>

FsPaths == {<<"t1", "g1">>, <<"t1", "x">>, <<"t2", "g1">>}

GoalReportStatuses == {"completed", "failed", "blocked"}

Line(key, value, exact) == [key |-> key, value |-> value, exact |-> exact]

IdLines == {<<>>, <<Line("id", "g1", TRUE)>>}

StatusLines ==
    {<<>>, <<Line("status", "pending", TRUE)>>, <<Line("status", "pending", FALSE)>>,
     <<Line("status", "completed", TRUE)>>}

Bodies == {<<Line("", "text", TRUE)>>,
           <<Line("", "text", TRUE), Line("status", "open", TRUE)>>}

GoalFileContents ==
    {[hasFm |-> FALSE, fm |-> <<>>, body |-> b] : b \in Bodies}
    \cup {[hasFm |-> TRUE, fm |-> i \o s, body |-> b] :
             i \in IdLines, s \in StatusLines, b \in Bodies}

\* frontmatter[key] after the loop of lines 130-135: the last line with that
\* key wins; no frontmatter block, no entries
frontmatterOf(content, key) ==
    LET I == {i \in DOMAIN content.fm : content.fm[i].key = key}
    IN  IF ~content.hasFm \/ I = {} THEN Undefined
        ELSE Some(content.fm[CHOOSE i \in I : \A j \in I : j <= i].value)

\* frontmatter[key] || fallback
fieldOr(v, fallback) == IF v # Undefined /\ v[1] # "" THEN v[1] ELSE fallback

\* #parseGoalFile, lines 120-157 (the fields the adapter and the pipeline use
\* to find the goal again); an absent id becomes goal-<Date.now()>, which
\* names no file
parseGoalFile(content) ==
    [id |-> fieldOr(frontmatterOf(content, "id"), "goal-now"),
     teamId |-> fieldOr(frontmatterOf(content, "team"), "unknown"),
     status |-> fieldOr(frontmatterOf(content, "status"), "pending")]

\* #fetchFromDirectory, lines 84-102: the paths of the goal files of one team
fetchFromDirectory(files, team) ==
    SelectSeq([i \in DOMAIN FsNames |-> <<team, FsNames[i]>>],
              LAMBDA p : p \in DOMAIN files)

\* fetchInputs, lines 68-82
RECURSIVE fetchAll(_, _)
fetchAll(files, teams) ==
    IF teams = <<>> THEN <<>>
    ELSE fetchFromDirectory(files, Head(teams)) \o fetchAll(files, Tail(teams))

\* if (teamId), line 69, is a test of truthiness: an absent teamId and the
\* teamId "" both take the files of every configured team.  Any other teamId
\* goes to getGoalsDir (line 71), which throws for a team that is not
\* configured (lines 61-64), so that the promise is rejected
fetchInputs(files, teamId) ==
    IF Truthy(teamId)
    THEN IF teamId[1] \in Range(FsTeams)
         THEN [threw |-> FALSE, error |-> Undefined,
               value |-> fetchFromDirectory(files, teamId[1])]
         ELSE [threw |-> TRUE, error |-> TeamNotFound(teamId[1]), value |-> <<>>]
    ELSE [threw |-> FALSE, error |-> Undefined, value |-> fetchAll(files, FsTeams)]

\* pollGoals, lines 104-118; each goal is kept with the file it was read from.
\* A rejection of fetchInputs (line 105) is not caught: pollGoals rejects with
\* the same error
pollGoals(files, teamId) ==
    LET fetched == fetchInputs(files, teamId)
        inputs == fetched.value
        goals == [i \in DOMAIN inputs |->
                     [goal |-> parseGoalFile(files[inputs[i]]), file |-> inputs[i]]]
    IN  IF fetched.threw THEN fetched
        ELSE [fetched EXCEPT
                 !.value = SelectSeq(goals, LAMBDA g : g.goal.status = "pending")]

\* the first line /^status:.*$/m matches, 0 when there is none
FirstStatusLine(lines) ==
    LET I == {i \in DOMAIN lines : lines[i].key = "status" /\ lines[i].exact}
    IN  IF I = {} THEN 0 ELSE CHOOSE i \in I : \A j \in I : i <= j

\* #replaceGoalStatus, lines 243-255
replaceGoalStatus(content, status) ==
    LET f == IF content.hasFm THEN FirstStatusLine(content.fm) ELSE 0
        b == FirstStatusLine(content.body)
    IN  IF f > 0 THEN [content EXCEPT !.fm[f].value = status]
        ELSE IF b > 0 THEN [content EXCEPT !.body[b].value = status]
        ELSE IF content.hasFm
        THEN [content EXCEPT !.fm = Append(@, Line("status", status, TRUE))]
        ELSE [hasFm |-> TRUE, fm |-> <<Line("status", status, TRUE)>>,
              body |-> content.body]

\* the goal file a goal report for inputId rewrites (lines 208-220): the
\* <inputId>.goal.md of the first team directory that has one
reportTarget(files, inputId) ==
    LET I == {i \in DOMAIN FsTeams : <<FsTeams[i], inputId>> \in DOMAIN files}
    IN  IF I = {} THEN Undefined
        ELSE Some(<<FsTeams[CHOOSE i \in I : \A j \in I : i <= j], inputId>>)

\* report for a goal, lines 179-223
report(files, inputId, status) ==
    LET target == reportTarget(files, inputId)
    IN  IF target = Undefined THEN files
        ELSE [files EXCEPT ![target[1]] = replaceGoalStatus(@, status)]

InitFs ==
    /\ fsFiles \in UNION {[D -> GoalFileContents] :
                             D \in {E \in SUBSET FsPaths : Cardinality(E) <= MaxFiles}}
    /\ fsQueue = <<>>
    /\ fsPolls = 0
    /\ fsLog = <<>>

\* runCycle, part_004 lines 335-341: pollGoals for one team or for all.  The
\* teamId is absent, "" (AGENTOS_TEAM set and empty, index.ts lines 16, 32 and
\* 60), a configured team, or a team that is not configured (a caller of
\* runCycle other than main, which stops at index.ts line 32).  When pollGoals
\* rejects, the await of line 335 rejects runCycle: no goal is processed
FsRunCycle ==
    /\ fsQueue = <<>>
    /\ fsPolls < MaxPolls
    /\ \E teamId \in {Undefined, Some(""), Some("t3")}
                      \cup {Some(FsTeams[i]) : i \in DOMAIN FsTeams} :
          LET polled == pollGoals(fsFiles, teamId)
              goals == polled.value
          IN  /\ fsQueue' = goals
              /\ fsLog' = Append(fsLog,
                     [kind |-> IF polled.threw THEN "rejected" ELSE "poll",
                      id |-> "", status |-> "",
                      teamId |-> teamId, error |-> polled.error,
                      files |-> {goals[i].file : i \in DOMAIN goals},
                      stored |-> {parseGoalFile(fsFiles[goals[i].file]).status :
                                    i \in DOMAIN goals},
                      target |-> Undefined])
    /\ fsPolls' = fsPolls + 1
    /\ UNCHANGED fsFiles

\* runCycle, part_004 lines 343-345, and #processGoal, lines 346-416: the
\* next polled goal is processed and gets its one goal-level report
FsProcessGoal ==
    /\ fsQueue # <<>>
    /\ \E status \in GoalReportStatuses :
          LET g == Head(fsQueue)
          IN  /\ fsFiles' = report(fsFiles, g.goal.id, status)
              /\ fsLog' = Append(fsLog,
                     [kind |-> "report", id |-> g.goal.id, status |-> status,
                      teamId |-> Undefined, error |-> Undefined,
                      files |-> {g.file}, stored |-> {},
                      target |-> reportTarget(fsFiles, g.goal.id)])
    /\ fsQueue' = Tail(fsQueue)
    /\ UNCHANGED fsPolls

FsFrame ==
    UNCHANGED <<smVars, clock, genVars, schedVars, cycleVars, claimVars, queryVars,
                discordVars>>

NextFs ==
    \/ FsRunCycle /\ FsFrame
    \/ FsProcessGoal /\ FsFrame

InitFsSpec ==
    /\ SMIdle /\ clock = 0 /\ GenIdle /\ SchedIdle /\ CycleIdle /\ ClaimIdle
    /\ QueryIdle
    /\ isReady = FALSE /\ discordPc = "constructed" /\ discordLog = <<>>
    /\ InitFs

SpecFs == InitFsSpec /\ [][NextFs]_vars

\* ---- C34 ----
\* C34 (first half): pollGoals returns only goals whose stored status is
\* pending.
C34_PolledArePending ==
    \A j \in DOMAIN fsLog :
        fsLog[j].kind = "poll" => fsLog[j].stored \subseteq {"pending"}

C34_PolledWitness ==
    /\ Len(fsLog) >= 1
    /\ fsLog[1].kind = "poll"
    /\ fsLog[1].files # {}
    /\ \E p \in DOMAIN fsFiles : p \notin fsLog[1].files

\* C34: pollGoals returns only goals whose stored status is pending, and a
\* goal that got its goal-level report (completed, failed or blocked) in one
\* cycle is in no later cycle among the goals pollGoals returns.
C34_ReportedNeverPolledAgain ==
    /\ \A j \in DOMAIN fsLog :
          fsLog[j].kind = "poll" => fsLog[j].stored \subseteq {"pending"}
    /\ \A i, j \in DOMAIN fsLog :
          (i < j /\ fsLog[i].kind = "report" /\ fsLog[j].kind = "poll") =>
              fsLog[i].files \cap fsLog[j].files = {}

\* a goal file the report can find and mark: it is the <id>.goal.md of its
\* goal in the first team directory that has a file of that name, and its
\* first "status:" line, if it has one, is in its frontmatter
ReportReaches(i) ==
    /\ fsLog[i].target # Undefined
    /\ fsLog[i].files = {fsLog[i].target[1]}
    /\ LET content == fsFiles[fsLog[i].target[1]]
       IN  /\ content.hasFm
           /\ FirstStatusLine(content.fm) > 0

\* what the code keeps of C34: a goal whose report reached its file is not
\* returned again
C34_ReachedNeverPolledAgain ==
    \A i, j \in DOMAIN fsLog :
        (i < j /\ fsLog[i].kind = "report" /\ fsLog[j].kind = "poll"
              /\ ReportReaches(i)) =>
            fsLog[i].files \cap fsLog[j].files = {}

\* a reached goal was reported in the first cycle and the second cycle polled
\* its directory without returning it
C34_ReachedWitness ==
    \E i, j \in DOMAIN fsLog :
        /\ i < j /\ fsLog[i].kind = "report" /\ fsLog[j].kind = "poll"
        /\ ReportReaches(i)
        /\ fsLog[j].files # {}

====
